---- MODULE Spec2Model ----
(***************************************************************************)
(* Release-vote state machine of the trusted-releases platform:            *)
(* atr/storage/writers/vote.py (CommitteeMember.start, resolve,            *)
(* resolve_release, send_resolution) over the committed database state,    *)
(* with the read-side helpers of atr/db/interaction.py.                    *)
(*                                                                         *)
(* The database variables (phase, podling_thread_id, revisions, tasks)     *)
(* hold COMMITTED state only.  A command handler is split at its commit    *)
(* points: every step of a handler is one commit (or a failure that rolls  *)
(* the session back), so every state of a behaviour is a state a           *)
(* concurrent reader can observe and a state a crash can leave behind.     *)
(***************************************************************************)
EXTENDS Integers, Sequences, FiniteSets, TLC

\* ---------------------------------------------------------------- bounds
MaxTasks == 5
MaxVotes == 3
MaxRevisions == 3

\* ------------------------------------------------------------- constants
None == 0

\* The releases in the database, and the ones commands are issued for.
Releases == {"app-1.0", "lib-2.0"}
Voted == {"app-1.0"}
Sessions == {1}

CANDIDATE_DRAFT == "RELEASE_CANDIDATE_DRAFT"
CANDIDATE == "RELEASE_CANDIDATE"
PREVIEW == "RELEASE_PREVIEW"
RELEASE == "RELEASE"
ReleasePhase == {CANDIDATE_DRAFT, CANDIDATE, PREVIEW, RELEASE}

VOTE_INITIATE == "VOTE_INITIATE"
MESSAGE_SEND == "MESSAGE_SEND"
TaskType == {VOTE_INITIATE, MESSAGE_SEND}

QUEUED == "QUEUED"
ACTIVE == "ACTIVE"
COMPLETED == "COMPLETED"
FAILED == "FAILED"
TaskStatus == {QUEUED, ACTIVE, COMPLETED, FAILED}

\* Committee of a release's project: absent, a top-level committee, or a
\* podling (is_podling = TRUE).
CommitteeKind == {"none", "pmc", "podling"}

\* util.USER_TESTS_ADDRESS, the address the round-2 vote is sent to.
USER_TESTS_ADDRESS == "user-tests@tooling.apache.org"
DevList == "dev@project.apache.org"
OtherList == "announce@apache.org"
\* util.permitted_recipients(asf_uid) of the caller
PermittedRecipients == {DevList, USER_TESTS_ADDRESS}
Recipients == {DevList, OtherList}

\* Vote durations offered by the form (hours).
Durations == {72, 168}

VoteResults == {"passed", "failed"}

\* Message shown when the vote task carries no message id (vote.py:229).
NoVoteThread == "No vote thread found, unable to send resolution message."

\* Message of the AccessError start raises for a recipient that is not
\* permitted (vote.py:307).
InvalidMailingList == "Invalid mailing list choice"

Errors == {"AccessError", "RuntimeError", "ValueError", "External"}

VARIABLES
    phase,              \* Release.phase of every release (committed)
    podling_thread_id,  \* Release.podling_thread_id, None when unset
    revisions,          \* number of Revision rows of every release
    tasks,              \* the Task table, in order of Task.added
    committee,          \* kind of release.project.committee
    dev,                \* util.is_dev_environment()
    ses,                \* per data session: position and locals of its command
    \* atr/tabulate.py
    votes_committee,    \* votes: its argument committee
    thread_messages,    \* the messages util.thread_messages has yielded so far
    tabulating,         \* the loop of votes is still reading the thread
    start_unixtime,     \* votes: start_unixtime
    tabulated_votes,    \* votes: tabulated_votes, voter key -> VoteEmail
    outcome,            \* what vote_outcome returned
    summary,            \* what vote_summary returned
    body_lines,         \* body.split("\n") of the body given to _vote_castings
    line_no,            \* the line the loop of _vote_castings is at
    castings,           \* _vote_castings: castings
    \* atr/db/interaction.py
    policies,           \* the ReleasePolicy table
    projects,           \* the Project table, by release_policy_id
    request,            \* the arguments of the last call of trusted_jwt
    response,           \* what that call returned or raised
    results,            \* all_releases: results
    listed              \* all_releases has returned results

\* The state of the storage writer (atr/storage/writers/vote.py), the
\* state of the tabulation (atr/tabulate.py) and the state of the queries
\* of atr/db/interaction.py.
writer == <<phase, podling_thread_id, revisions, tasks, committee, dev, ses>>
tabulate == <<votes_committee, thread_messages, tabulating, start_unixtime, tabulated_votes,
              outcome, summary, body_lines, line_no, castings>>
interaction == <<policies, projects, request, response, results, listed>>
vars == <<phase, podling_thread_id, revisions, tasks, committee, dev, ses,
          votes_committee, thread_messages, tabulating, start_unixtime,
          tabulated_votes, outcome, summary, body_lines, line_no, castings,
          policies, projects, request, response, results, listed>>
db == <<phase, podling_thread_id, revisions, tasks>>

\* ------------------------------------------------------------ the session
\* A session with no command running; ret and msg keep what its last command
\* returned (ret: "ok", the kind of error raised, or "crash").
Returned(ret, msg) ==
    [pc |-> "idle", op |-> "", rel |-> "", vote_result |-> "",
     voting_round |-> None, task |-> None, thread |-> None,
     revision |-> None, extra |-> <<>>, ret |-> ret, msg |-> msg]

\* release.latest_revision_number: the number of the newest revision.
latest_revision_number(r) == IF revisions[r] = 0 THEN None ELSE revisions[r]

is_podling(r) == committee[r] = "podling"

\* ------------------------------------------------------------- the tasks
\* sql.Task as created by start (vote.py:325-340): status QUEUED, type
\* VOTE_INITIATE, task_args of tasks_vote.Initiate; no result yet.
VoteInitiateTask(r, email_to, vote_duration, subject, body) ==
    [task_type |-> VOTE_INITIATE, status |-> QUEUED, rel |-> r,
     email_to |-> email_to, vote_duration |-> vote_duration,
     subject |-> subject, body |-> body, in_reply_to |-> None,
     result |-> None]

\* Variant of Upper: the resolution goes into the subject as it was given.
Upper_as_given(resolution) == resolution

\* str.upper() on the resolution.
Upper(resolution) ==
    CASE resolution = "passed" -> "PASSED"
      [] resolution = "failed" -> "FAILED"
      [] OTHER -> resolution

\* The subject line of the resolution mail (vote.py:237).
ResolutionSubject(r, resolution) ==
    <<"[VOTE] [RESULT] Release", r, Upper(resolution)>>

\* sql.Task as created by send_resolution (vote.py:244-257, 260-273).
MessageSendTask(r, email_recipient, subject, body, in_reply_to) ==
    [task_type |-> MESSAGE_SEND, status |-> QUEUED, rel |-> r,
     email_to |-> email_recipient, vote_duration |-> None,
     subject |-> subject, body |-> body, in_reply_to |-> in_reply_to,
     result |-> None]

\* The body of the resolution mail (vote.py:238-241): the body handed to
\* resolve, an empty line and the signature, as its lines.
ResolutionBody(body) == body \o <<"", "-- ", "asf_fullname (asf_uid)">>
\* The resolution_body argument of resolve.
FormResolutionBody == <<"resolution body">>

\* The subject of the automatically started round-2 vote (vote.py:180).
VoteSubject(r) == <<"[VOTE] Release", r>>
\* The subject typed into the form of an interactive start.
FormSubject == <<"form subject">>
\* The body typed into the form of an interactive start, and the one
\* construct.start_vote_default writes for the round-2 vote (vote.py:181).
FormBody == <<"form body">>
DefaultVoteBody(r) == <<"default vote body", r>>

\* ----------------------------------------------------- db/interaction.py
TEST_MID == None

\* Variant of disallowed_statuses: the development environment is not
\* told apart.
disallowed_statuses_always == {QUEUED, ACTIVE}

\* Statuses release_latest_vote_task refuses (interaction.py:192-194).
disallowed_statuses == IF dev THEN {} ELSE {QUEUED, ACTIVE}

\* Variant of EligibleVoteTasks: the filter on Task.result is missing.
EligibleVoteTasks_any_result(r) ==
    {i \in 1..Len(tasks) :
        /\ tasks[i].rel = r
        /\ tasks[i].task_type = VOTE_INITIATE
        /\ tasks[i].status \notin disallowed_statuses}

\* The tasks release_latest_vote_task selects from (interaction.py:199-203).
EligibleVoteTasks(r) ==
    {i \in 1..Len(tasks) :
        /\ tasks[i].rel = r
        /\ tasks[i].task_type = VOTE_INITIATE
        /\ tasks[i].status \notin disallowed_statuses
        /\ tasks[i].result # None}

Max(S) == CHOOSE x \in S : \A y \in S : y <= x

\* order_by(added desc).limit(1): the newest eligible task, None if none.
\* A task is named by its position in the table, which is its order of
\* insertion.
release_latest_vote_task(r) ==
    IF EligibleVoteTasks(r) = {} THEN None ELSE Max(EligibleVoteTasks(r))

\* interaction.py:243-253.  The result of a VOTE_INITIATE task is a
\* results.VoteInitiate whenever it is present; its mid is modelled by the
\* result field itself.
task_mid_get(i) == IF dev THEN TEST_MID ELSE tasks[i].result

\* ------------------------------------------------------ the mail archive
\* The archive names the thread opened by message mid.
ThreadIdOf(mid) == 0 - mid
\* https://lists.apache.org/thread/<thread_id>, as its "/"-separated parts.
ArchiveUrl(mid) == <<"https:", "", "lists.apache.org", "thread", ThreadIdOf(mid)>>
\* archive_url.split("/")[-1]
LastSegment(url) == url[Len(url)]
\* util.email_mid_from_thread_id: the list address and message id of the
\* message that opened the thread.
MidOfThread(thread_id) == 0 - thread_id
email_mid_from_thread_id(thread_id) ==
    <<tasks[MidOfThread(thread_id)].email_to, MidOfThread(thread_id)>>

\* What the archive may answer to task_archive_url_cached(mid).
ArchiveAnswers(mid) == IF mid = None THEN {"none", "raise"} ELSE {"url", "none", "raise"}

\* ------------------------------------------------------------ operations
\* No tabulation is running: nothing read, nothing parsed, nothing returned.
NoTabulation ==
    /\ votes_committee = None
    /\ thread_messages = <<>>
    /\ tabulating = FALSE
    /\ start_unixtime = None
    /\ tabulated_votes = <<>>
    /\ outcome = <<>>
    /\ summary = <<>>
    /\ body_lines = <<>>
    /\ line_no = 0
    /\ castings = <<>>

\* No query of atr/db/interaction.py is involved.
NoInteraction ==
    /\ policies = <<>>
    /\ projects = <<>>
    /\ request = <<>>
    /\ response = <<>>
    /\ results = <<>>
    /\ listed = FALSE

Init ==
    /\ phase = [r \in Releases |-> CANDIDATE_DRAFT]
    /\ podling_thread_id = [r \in Releases |-> None]
    /\ revisions = [r \in Releases |-> 1]
    /\ tasks = <<>>
    /\ committee \in {[r \in Releases |-> IF r \in Voted THEN k ELSE "pmc"] : k \in CommitteeKind}
    /\ dev \in BOOLEAN
    /\ ses = [s \in Sessions |-> Returned("none", "")]
    /\ NoTabulation
    /\ NoInteraction

\* The command raises: the session is rolled back, nothing is committed.
Raise(s, err) ==
    /\ ses' = [ses EXCEPT ![s] = Returned(err, "")]
    /\ UNCHANGED <<phase, podling_thread_id, revisions, tasks, committee, dev, tabulate, interaction>>

\* The same, the error carrying a message the caller shows.
RaiseWith(s, err, msg) ==
    /\ ses' = [ses EXCEPT ![s] = Returned(err, msg)]
    /\ UNCHANGED <<phase, podling_thread_id, revisions, tasks, committee, dev, tabulate, interaction>>

\* Number of VOTE_INITIATE tasks in the table.
VoteTasks == Cardinality({i \in 1..Len(tasks) : tasks[i].task_type = VOTE_INITIATE})

\* interaction.promote_release: verifies the release is a candidate draft;
\* TRUE when it returns an error.
promote_release_error(r) == phase[r] # CANDIDATE_DRAFT

\* Variant of start: the recipient is not checked against the permitted
\* mailing lists.
start_any_recipient(s, r, email_to, vote_duration, promote) ==
    /\ ses[s].pc = "idle"
    /\ IF promote /\ promote_release_error(r)
         THEN Raise(s, "AccessError")
       ELSE /\ Len(tasks) < MaxTasks
            /\ VoteTasks < MaxVotes
            /\ phase' = IF promote THEN [phase EXCEPT ![r] = CANDIDATE] ELSE phase
            /\ tasks' = Append(tasks, VoteInitiateTask(r, email_to, vote_duration, FormSubject, FormBody))
            /\ ses' = [ses EXCEPT ![s] = Returned("ok", "")]
            /\ UNCHANGED <<podling_thread_id, revisions, committee, dev, tabulate, interaction>>

\* CommitteeMember.start called by a request handler (vote.py:280-347).
\* Request handlers call it with promote at its default, True; the call
\* with promote=False is the nested one of resolve_release.
start(s, r, email_to, vote_duration, promote) ==
    /\ ses[s].pc = "idle"
    /\ IF email_to \notin PermittedRecipients
         THEN RaiseWith(s, "AccessError", InvalidMailingList)
       ELSE IF promote /\ promote_release_error(r)
         THEN Raise(s, "AccessError")
       ELSE /\ Len(tasks) < MaxTasks
            /\ VoteTasks < MaxVotes
            /\ phase' = IF promote THEN [phase EXCEPT ![r] = CANDIDATE] ELSE phase
            /\ tasks' = Append(tasks, VoteInitiateTask(r, email_to, vote_duration, FormSubject, FormBody))
            /\ ses' = [ses EXCEPT ![s] = Returned("ok", "")]
            /\ UNCHANGED <<podling_thread_id, revisions, committee, dev, tabulate, interaction>>

\* Variant of release_found: the phase filter of the query is missing.
release_found_any_phase(r) == r \in Releases

\* The release query of resolve (vote.py:106-111) finds the release only
\* in phase RELEASE_CANDIDATE.
release_found(r) == phase[r] = CANDIDATE

\* Variant of voting_round: the test of podling_thread_id is inverted.
voting_round_inverted(podling, thread) ==
    IF podling THEN (IF thread = None THEN 2 ELSE 1) ELSE None

\* Variant of voting_round: is_podling is not consulted.
voting_round_any_committee(podling, thread) ==
    IF thread = None THEN 1 ELSE 2

\* vote.py:122-124
voting_round(podling, thread) ==
    IF podling THEN (IF thread = None THEN 1 ELSE 2) ELSE None

\* Tasks a resolve may still add; keeps the task table within MaxTasks.
Room(r, vr) == IF vr = "passed" /\ is_podling(r) THEN 2 ELSE 1
VoteRoom(r, vr) == IF vr = "passed" /\ is_podling(r) /\ podling_thread_id[r] = None THEN 1 ELSE 0

\* CommitteeMember.resolve (vote.py:98-136): load the release and its vote
\* task, check the preconditions, enter resolve_release.
resolve(s, r, vr) ==
    /\ ses[s].pc = "idle"
    /\ IF ~release_found(r)
         THEN Raise(s, "AccessError")
       ELSE IF release_latest_vote_task(r) = None
         THEN Raise(s, "RuntimeError")
       ELSE IF committee[r] = "none"
         THEN Raise(s, "ValueError")
       ELSE /\ Len(tasks) + Room(r, vr) <= MaxTasks
            /\ VoteTasks + VoteRoom(r, vr) <= MaxVotes
            /\ ses' = [ses EXCEPT ![s] =
                 [pc |-> "resolve_release", op |-> "resolve", rel |-> r,
                  vote_result |-> vr,
                  voting_round |-> voting_round(is_podling(r), podling_thread_id[r]),
                  task |-> release_latest_vote_task(r),
                  thread |-> podling_thread_id[r],
                  revision |-> latest_revision_number(r),
                  extra |-> <<>>, ret |-> "pending", msg |-> ""]]
            /\ UNCHANGED <<phase, podling_thread_id, revisions, tasks, committee, dev, tabulate, interaction>>

\* The session moves on inside resolve.
Goto(s, pc, extra) == ses' = [ses EXCEPT ![s].pc = pc, ![s].extra = extra]

\* The address the Incubator PMC vote is sent to (vote.py:164-165): the
\* incubator list is commented out there, the user-tests list stands in.
incubator_vote_address == USER_TESTS_ADDRESS

\* Variant of round_two_vote: the duration is the form's default instead of
\* the one of the vote just resolved.
round_two_vote_default_duration(r, latest_vote_task) ==
    VoteInitiateTask(r, incubator_vote_address, 72, VoteSubject(r),
                     DefaultVoteBody(r))

\* The task of the nested start of resolve_release (vote.py:171-184): sent to
\* incubator_vote_address with the duration of the vote just resolved.
round_two_vote(r, latest_vote_task) ==
    VoteInitiateTask(r, incubator_vote_address,
                     tasks[latest_vote_task].vote_duration, VoteSubject(r),
                     DefaultVoteBody(r))

\* Variant of resolve_release_round_one: podling_thread_id is committed
\* before the nested start, whose task is then lost.
resolve_release_round_one_early_commit(s, answer) ==
    LET r == ses[s].rel
        task_mid == task_mid_get(ses[s].task)
    IN  /\ ses[s].pc = "resolve_release"
        /\ ses[s].voting_round = 1 /\ ses[s].vote_result = "passed"
        /\ answer \in ArchiveAnswers(task_mid)
        /\ IF answer # "url"
             THEN Raise(s, "ValueError")
             ELSE /\ podling_thread_id' = [podling_thread_id EXCEPT ![r] = LastSegment(ArchiveUrl(task_mid))]
                  /\ ses' = [ses EXCEPT ![s].pc = "send_resolution"]
                  /\ UNCHANGED <<phase, revisions, tasks, committee, dev, tabulate, interaction>>

\* resolve_release, first podling vote passed (vote.py:152-185 and the commit
\* of the nested start, vote.py:324-342): podling_thread_id and the round-2
\* VOTE_INITIATE task are written and committed by start's commit.
resolve_release_round_one(s, answer) ==
    LET r == ses[s].rel
        task_mid == task_mid_get(ses[s].task)
        archive_url == IF answer = "url" THEN ArchiveUrl(task_mid) ELSE <<>>
    IN  /\ ses[s].pc = "resolve_release"
        /\ ses[s].voting_round = 1 /\ ses[s].vote_result = "passed"
        /\ answer \in ArchiveAnswers(task_mid)
        /\ IF answer = "raise"
             THEN Raise(s, "External")
           ELSE IF answer = "none"
             THEN Raise(s, "ValueError")
           ELSE IF committee[r] = "none" \/ ses[s].revision = None
             THEN Raise(s, "ValueError")
           ELSE /\ podling_thread_id' = [podling_thread_id EXCEPT ![r] = LastSegment(archive_url)]
                /\ tasks' = Append(tasks, round_two_vote(r, ses[s].task))
                /\ Goto(s, "send_resolution", <<>>)
                /\ UNCHANGED <<phase, revisions, committee, dev, tabulate, interaction>>

\* resolve_release, any other pass (vote.py:186-194): the preview revision
\* is created through revision.create_and_manage, which is not given the
\* command's session and persists the revision on its own.
resolve_release_create_revision(s, created) ==
    LET r == ses[s].rel
    IN  /\ ses[s].pc = "resolve_release"
        /\ ses[s].voting_round # 1 /\ ses[s].vote_result = "passed"
        /\ IF created
             THEN /\ revisions[r] < MaxRevisions
                  /\ revisions' = [revisions EXCEPT ![r] = @ + 1]
                  /\ Goto(s, "created", <<>>)
                  /\ UNCHANGED <<phase, podling_thread_id, tasks, committee, dev, tabulate, interaction>>
             ELSE Raise(s, "External")

\* Variant of resolve_release_passed: the phase is set on every release
\* instead of the one resolved.
resolve_release_passed_every_release(s, found) ==
    LET r == ses[s].rel
        second == (ses[s].voting_round = 2) /\ (ses[s].thread # None)
    IN  /\ ses[s].pc = "created"
        /\ IF second /\ ~found
             THEN Raise(s, "External")
             ELSE /\ phase' = [x \in Releases |-> PREVIEW]
                  /\ Goto(s, "send_resolution",
                          IF second THEN email_mid_from_thread_id(ses[s].thread) ELSE <<>>)
                  /\ UNCHANGED <<podling_thread_id, revisions, tasks, committee, dev, tabulate, interaction>>

\* resolve_release, any other pass, continued (vote.py:195-203): look up the
\* round-1 thread of a round-2 vote, then commit the phase set at line 187.
resolve_release_passed(s, found) ==
    LET r == ses[s].rel
        second == (ses[s].voting_round = 2) /\ (ses[s].thread # None)
    IN  /\ ses[s].pc = "created"
        /\ IF second /\ ~found
             THEN Raise(s, "External")
             ELSE /\ phase' = [phase EXCEPT ![r] = PREVIEW]
                  /\ Goto(s, "send_resolution",
                          IF second THEN email_mid_from_thread_id(ses[s].thread) ELSE <<>>)
                  /\ UNCHANGED <<podling_thread_id, revisions, tasks, committee, dev, tabulate, interaction>>

\* resolve_release, vote failed (vote.py:200-203).
resolve_release_failed(s) ==
    LET r == ses[s].rel
    IN  /\ ses[s].pc = "resolve_release"
        /\ ses[s].vote_result # "passed"
        /\ phase' = [phase EXCEPT ![r] = CANDIDATE_DRAFT]
        /\ Goto(s, "send_resolution", <<>>)
        /\ UNCHANGED <<podling_thread_id, revisions, tasks, committee, dev, tabulate, interaction>>

\* Variant of ResolutionTasks: the mail to the extra destination replies to
\* the current vote thread instead of the round-1 message.
ResolutionTasks_extra_in_thread(r, resolution, task, vote_thread_mid, extra_destination) ==
    <<MessageSendTask(r, tasks[task].email_to,
                      ResolutionSubject(r, resolution),
                      ResolutionBody(FormResolutionBody), vote_thread_mid)>>
    \o (IF extra_destination = <<>> THEN <<>>
        ELSE <<MessageSendTask(r, extra_destination[1],
                               ResolutionSubject(r, resolution),
                               ResolutionBody(FormResolutionBody),
                               vote_thread_mid)>>)

\* The MESSAGE_SEND tasks send_resolution builds (vote.py:235-274).
ResolutionTasks(r, resolution, task, vote_thread_mid, extra_destination) ==
    <<MessageSendTask(r, tasks[task].email_to,
                      ResolutionSubject(r, resolution),
                      ResolutionBody(FormResolutionBody), vote_thread_mid)>>
    \o (IF extra_destination = <<>> THEN <<>>
        ELSE <<MessageSendTask(r, extra_destination[1],
                               ResolutionSubject(r, resolution),
                               ResolutionBody(FormResolutionBody),
                               extra_destination[2])>>)

\* Variant of send_resolution: the test of vote_thread_mid is missing.
send_resolution_unchecked_mid(s) ==
    LET r == ses[s].rel
        vote_thread_mid == task_mid_get(ses[s].task)
    IN  /\ ses[s].pc = "send_resolution"
        /\ tasks' = tasks \o ResolutionTasks(r, ses[s].vote_result, ses[s].task,
                                             vote_thread_mid, ses[s].extra)
        /\ ses' = [ses EXCEPT ![s] = Returned("ok", "")]
        /\ UNCHANGED <<phase, podling_thread_id, revisions, committee, dev, tabulate, interaction>>

\* send_resolution (vote.py:216-278) and the return of resolve_release.
send_resolution(s) ==
    LET r == ses[s].rel
        vote_thread_mid == task_mid_get(ses[s].task)
    IN  /\ ses[s].pc = "send_resolution"
        /\ IF vote_thread_mid = None
             THEN /\ ses' = [ses EXCEPT ![s] =
                       Returned("ok", NoVoteThread)]
                  /\ UNCHANGED <<phase, podling_thread_id, revisions, tasks, committee, dev, tabulate, interaction>>
             ELSE /\ tasks' = tasks \o ResolutionTasks(r, ses[s].vote_result, ses[s].task,
                                                       vote_thread_mid, ses[s].extra)
                  /\ ses' = [ses EXCEPT ![s] =
                       Returned("ok", "")]
                  /\ UNCHANGED <<phase, podling_thread_id, revisions, committee, dev, tabulate, interaction>>

\* The process dies (or the request is cancelled) inside a command: what
\* was committed stays, the rest of the command never runs.
Crash(s) ==
    /\ ses[s].pc # "idle"
    /\ Raise(s, "crash")

\* ---------------------------------------------------------- task workers
\* A worker picks a queued task.  Only the workers of VOTE_INITIATE tasks
\* are followed: no command reads the status or result of a MESSAGE_SEND
\* task (interaction.py:201).
WorkerTake(i) ==
    /\ tasks[i].task_type = VOTE_INITIATE
    /\ tasks[i].status = QUEUED
    /\ tasks' = [tasks EXCEPT ![i].status = ACTIVE]
    /\ UNCHANGED <<phase, podling_thread_id, revisions, committee, dev, ses, tabulate, interaction>>

\* The worker finishes: the mail went out and the result records its
\* message id, or the task failed and has no result.
WorkerFinish(i, sent) ==
    /\ tasks[i].status = ACTIVE
    /\ tasks' = IF sent
                  THEN [tasks EXCEPT ![i].status = COMPLETED, ![i].result = i]
                  ELSE [tasks EXCEPT ![i].status = FAILED]
    /\ UNCHANGED <<phase, podling_thread_id, revisions, committee, dev, ses, tabulate, interaction>>

Next ==
    \/ \E s \in Sessions, r \in Voted, e \in Recipients, d \in Durations :
          start(s, r, e, d, TRUE)
    \/ \E s \in Sessions, r \in Voted, vr \in VoteResults : resolve(s, r, vr)
    \/ \E s \in Sessions, a \in {"url", "none", "raise"} : resolve_release_round_one(s, a)
    \/ \E s \in Sessions, c \in BOOLEAN : resolve_release_create_revision(s, c)
    \/ \E s \in Sessions, f \in BOOLEAN : resolve_release_passed(s, f)
    \/ \E s \in Sessions : resolve_release_failed(s)
    \/ \E s \in Sessions : send_resolution(s)
    \/ \E s \in Sessions : Crash(s)
    \/ \E i \in 1..Len(tasks) : WorkerTake(i)
    \/ \E i \in 1..Len(tasks), sent \in BOOLEAN : WorkerFinish(i, sent)

Spec == Init /\ [][Next]_vars

TypeOK ==
    /\ phase \in [Releases -> ReleasePhase]
    /\ revisions \in [Releases -> 0..MaxRevisions]
    /\ Len(tasks) <= MaxTasks
    /\ \A i \in 1..Len(tasks) : tasks[i].status \in TaskStatus /\ tasks[i].task_type \in TaskType

\* ================================================================ claims
OngoingVotes(r) ==
    {i \in 1..Len(tasks) : /\ tasks[i].task_type = VOTE_INITIATE
                           /\ tasks[i].rel = r
                           /\ tasks[i].status \in {QUEUED, ACTIVE}}

\* C1: resolve on a release in phase CANDIDATE: 'passed' sets the phase to
\* PREVIEW for a non-podling and for a podling whose podling_thread_id is
\* set; 'passed' for a podling without podling_thread_id leaves the phase
\* CANDIDATE and sets podling_thread_id; 'failed' sets CANDIDATE_DRAFT.
C1_ResolvePhase ==
    [][\A s \in Sessions :
        (/\ ses[s].pc \in {"resolve_release", "created"}
         /\ ses'[s].pc = "send_resolution"
         /\ phase[ses[s].rel] = CANDIDATE)
        => LET r == ses[s].rel
               vr == ses[s].vote_result
           IN  /\ (vr = "failed") => (phase'[r] = CANDIDATE_DRAFT)
               /\ (vr = "passed" /\ (~is_podling(r) \/ podling_thread_id[r] # None))
                     => (phase'[r] = PREVIEW)
               /\ (vr = "passed" /\ is_podling(r) /\ podling_thread_id[r] = None)
                     => (phase'[r] = CANDIDATE /\ podling_thread_id'[r] # None)]_vars

\* A podling's second vote has just been resolved as passed.
C1_Witness ==
    \E s \in Sessions :
        /\ ses[s].pc = "send_resolution" /\ ses[s].vote_result = "passed"
        /\ ses[s].voting_round = 2 /\ phase[ses[s].rel] = PREVIEW

\* C2: the phase transition of resolve and its resolution MESSAGE_SEND tasks
\* are committed together: every commit that moves a release out of
\* CANDIDATE (the vote task having a message id) also adds the resolution
\* MESSAGE_SEND task of that release.
C2_PhaseWithResolutionTasks ==
    [][\A r \in Releases :
        (/\ phase[r] = CANDIDATE
         /\ phase'[r] \in {PREVIEW, CANDIDATE_DRAFT}
         /\ release_latest_vote_task(r) # None
         /\ task_mid_get(release_latest_vote_task(r)) # None)
        => \E i \in (Len(tasks) + 1)..Len(tasks') :
              tasks'[i].task_type = MESSAGE_SEND /\ tasks'[i].rel = r]_vars

\* C3: no committed state has podling_thread_id set without the round-2
\* VOTE_INITIATE task (to the incubator vote address, added after the vote
\* that opened the recorded thread).
C3_ThreadWithRoundTwoVote ==
    \A r \in Releases :
        podling_thread_id[r] # None
        => \E i \in 1..Len(tasks) :
              /\ tasks[i].task_type = VOTE_INITIATE
              /\ tasks[i].rel = r
              /\ tasks[i].email_to = incubator_vote_address
              /\ i > MidOfThread(podling_thread_id[r])

\* The first podling vote has just been committed as passed.
C3_Witness ==
    \E s \in Sessions :
        /\ ses[s].pc = "send_resolution" /\ ses[s].voting_round = 1
        /\ ses[s].vote_result = "passed"
        /\ podling_thread_id[ses[s].rel] # None

\* C4: outside the developer environment a release has at most one
\* VOTE_INITIATE task that is QUEUED or ACTIVE.
C4_OneOngoingVote ==
    ~dev => \A r \in Releases : Cardinality(OngoingVotes(r)) <= 1

\* C5: a release whose committee is not a podling never has
\* podling_thread_id set.
C5_ThreadOnlyForPodlings ==
    \A r \in Releases : ~is_podling(r) => podling_thread_id[r] = None

\* A non-podling release has been voted on and resolved as passed.
C5_Witness ==
    \E r \in Releases :
        committee[r] = "pmc" /\ phase[r] = PREVIEW /\ podling_thread_id[r] = None

\* C6: podling_thread_id marks round 2 of the current two-round sequence
\* only: a release that is back in CANDIDATE_DRAFT has no podling_thread_id.
C6_DraftHasNoThread ==
    \A r \in Releases : phase[r] = CANDIDATE_DRAFT => podling_thread_id[r] = None

PhaseEdges ==
    {<<CANDIDATE_DRAFT, CANDIDATE>>, <<CANDIDATE, PREVIEW>>, <<CANDIDATE, CANDIDATE_DRAFT>>}

ResolvePrecondition(r) ==
    /\ phase[r] = CANDIDATE
    /\ \E i \in 1..Len(tasks) :
          /\ tasks[i].task_type = VOTE_INITIATE /\ tasks[i].rel = r
          /\ tasks[i].status \notin {QUEUED, ACTIVE}
          /\ tasks[i].result # None
    /\ committee[r] # "none"

\* C8: a resolve whose precondition is not met fails with an error and
\* leaves phase, podling_thread_id, revisions and the tasks unchanged.
C8_FailedPrecondition ==
    [][\A s \in Sessions, r \in Releases, vr \in VoteResults :
        (resolve(s, r, vr) /\ ~ResolvePrecondition(r))
        => (/\ ses'[s].pc = "idle"
            /\ ses'[s].ret \in Errors
            /\ UNCHANGED db)]_vars

\* A resolve has failed for want of a finished vote task: a release is in
\* CANDIDATE, its only vote task failed and carries no result.
C8_Witness ==
    \E s \in Sessions, r \in Releases :
        /\ ses[s].ret = "RuntimeError"
        /\ phase[r] = CANDIDATE
        /\ \E i \in 1..Len(tasks) : tasks[i].rel = r /\ tasks[i].status = FAILED
        /\ ~ResolvePrecondition(r)

\* C9: when an external call of resolve_release fails, nothing of the call
\* is committed: phase, podling_thread_id and the tasks are unchanged and
\* the release has the revisions it had when resolve was called.
C9_ExternalFailureCommitsNothing ==
    [][\A s \in Sessions :
        (/\ ses[s].pc \in {"resolve_release", "created"}
         /\ ses'[s].pc = "idle"
         /\ ses'[s].ret \in {"External", "ValueError"})
        => (/\ phase' = phase
            /\ podling_thread_id' = podling_thread_id
            /\ tasks' = tasks
            /\ revisions'[ses[s].rel] = ses[s].revision)]_vars

Sent(s) ==
    /\ ses[s].pc = "send_resolution"
    /\ ses'[s].pc = "idle" /\ ses'[s].ret = "ok"

\* C11: a passed round-2 vote of a podling (podling_thread_id set, vote
\* message id present) creates one revision and queues exactly two
\* MESSAGE_SEND tasks with the same subject and body: one to the recipient
\* of the vote task, in reply to the message id of its thread, and one to
\* the list address of round 1, in reply to the round-1 message id that
\* podling_thread_id leads to.
C11_RoundTwoPass ==
    [][\A s \in Sessions :
        LET r == ses[s].rel
            task == ses[s].task
            n == Len(tasks)
        IN  (/\ Sent(s)
             /\ ses[s].vote_result = "passed" /\ ses[s].voting_round = 2
             /\ ses[s].thread # None
             /\ task_mid_get(task) # None)
            => (/\ Len(tasks') = n + 2
                /\ SubSeq(tasks', 1, n) = tasks
                /\ \A i \in {n + 1, n + 2} :
                      /\ tasks'[i].task_type = MESSAGE_SEND
                      /\ tasks'[i].status = QUEUED
                      /\ tasks'[i].rel = r
                /\ tasks'[n + 1].subject = tasks'[n + 2].subject
                /\ tasks'[n + 1].body = tasks'[n + 2].body
                /\ tasks'[n + 1].email_to = tasks[task].email_to
                /\ tasks'[n + 1].in_reply_to = tasks[task].result
                /\ tasks'[n + 2].email_to = tasks[MidOfThread(ses[s].thread)].email_to
                /\ tasks'[n + 2].in_reply_to = MidOfThread(ses[s].thread)
                /\ revisions'[r] = ses[s].revision + 1)]_vars

\* Both resolution mails of a passed round-2 vote are queued, each in reply
\* to the message of its own round.
C11_Witness ==
    \E r \in Releases :
        LET n == Len(tasks)
        IN  /\ is_podling(r) /\ phase[r] = PREVIEW /\ n >= 2
            /\ tasks[n].task_type = MESSAGE_SEND
            /\ tasks[n - 1].task_type = MESSAGE_SEND
            /\ tasks[n].in_reply_to = MidOfThread(podling_thread_id[r])
            /\ tasks[n - 1].in_reply_to # tasks[n].in_reply_to
            /\ tasks[n - 1].email_to = incubator_vote_address

\* C12: a successful resolve that is not a passed round-2 vote of a podling,
\* the vote message id being present, queues exactly one MESSAGE_SEND task:
\* QUEUED, to the email_to of the vote task, in reply to the message id of
\* the vote thread, its subject ending in "PASSED" or "FAILED" after the
\* resolution.
C12_OneResolutionMail ==
    [][\A s \in Sessions :
        LET r == ses[s].rel
            task == ses[s].task
            n == Len(tasks)
        IN  (/\ Sent(s)
             /\ ~(ses[s].vote_result = "passed" /\ ses[s].voting_round = 2)
             /\ task_mid_get(task) # None)
            => (/\ Len(tasks') = n + 1
                /\ SubSeq(tasks', 1, n) = tasks
                /\ tasks'[n + 1].task_type = MESSAGE_SEND
                /\ tasks'[n + 1].status = QUEUED
                /\ tasks'[n + 1].email_to = tasks[task].email_to
                /\ tasks'[n + 1].in_reply_to = tasks[task].result
                /\ LET subject == tasks'[n + 1].subject
                   IN  subject[Len(subject)] =
                          (IF ses[s].vote_result = "passed" THEN "PASSED" ELSE "FAILED"))]_vars

\* The one resolution mail of a passed vote of a PMC release is queued.
C12_Witness ==
    \E r \in Releases :
        LET n == Len(tasks)
        IN  /\ committee[r] = "pmc" /\ phase[r] = PREVIEW /\ n >= 2
            /\ tasks[n].task_type = MESSAGE_SEND
            /\ tasks[n].subject = ResolutionSubject(r, "passed")
            /\ tasks[n].in_reply_to # None
            /\ tasks[n - 1].task_type = VOTE_INITIATE

\* The original statement of C13: whenever the vote task carries no message
\* id, resolve (its external calls answering) does not fail: it returns the
\* message NoVoteThread and queues no MESSAGE_SEND task.
C13_NoMessageIdNeverFails ==
    [][\A s \in Sessions :
        (/\ ses[s].pc \in {"resolve_release", "created", "send_resolution"}
         /\ task_mid_get(ses[s].task) = None
         /\ ses'[s].pc = "idle"
         /\ ses'[s].ret \notin {"crash", "External"})
        => (/\ ses'[s].ret = "ok"
            /\ ses'[s].msg = NoVoteThread
            /\ tasks' = tasks)]_vars

\* C13: when the vote task carries no message id, a resolve other than a
\* passed first podling vote does not fail: send_resolution returns the
\* message NoVoteThread, the committed phase stays and no MESSAGE_SEND task
\* is queued; a passed first podling vote fails for want of an archive URL
\* and commits nothing.
C13_NoMessageId ==
    [][\A s \in Sessions :
        LET r == ses[s].rel
            first == ses[s].voting_round = 1 /\ ses[s].vote_result = "passed"
        IN  (/\ ses[s].pc # "idle"
             /\ task_mid_get(ses[s].task) = None
             /\ ses'[s] # ses[s]
             /\ ses'[s].ret # "crash")
            => (/\ (ses[s].pc = "send_resolution")
                      => (/\ ~first
                          /\ ses'[s] = Returned("ok", NoVoteThread)
                          /\ phase[r] = (IF ses[s].vote_result = "passed"
                                           THEN PREVIEW ELSE CANDIDATE_DRAFT)
                          /\ UNCHANGED db)
                /\ (ses[s].pc = "resolve_release" /\ first)
                      => (/\ ses'[s].pc = "idle"
                          /\ ses'[s].ret \in {"ValueError", "External"}
                          /\ UNCHANGED db))]_vars

\* A resolve has returned the message NoVoteThread and the release is a
\* preview with no resolution mail queued.
C13_Witness ==
    \E s \in Sessions, r \in Releases :
        /\ ses[s].ret = "ok" /\ ses[s].msg = NoVoteThread
        /\ phase[r] = PREVIEW
        /\ \A i \in 1..Len(tasks) : tasks[i].task_type # MESSAGE_SEND

\* C14: start with a recipient outside the permitted mailing lists fails
\* with an access error before any write (no phase changes, no task is
\* queued); with a permitted recipient and a promotion that succeeds it
\* queues exactly one VOTE_INITIATE task, QUEUED.
C14_StartRecipient ==
    [][\A s \in Sessions, r \in Releases, e \in Recipients, d \in Durations :
        start(s, r, e, d, TRUE)
        => (/\ (e \notin PermittedRecipients)
                  => (/\ ses'[s].ret = "AccessError"
                      /\ UNCHANGED db)
            /\ (e \in PermittedRecipients /\ phase[r] = CANDIDATE_DRAFT)
                  => (/\ ses'[s].ret = "ok"
                      /\ phase'[r] = CANDIDATE
                      /\ Len(tasks') = Len(tasks) + 1
                      /\ SubSeq(tasks', 1, Len(tasks)) = tasks
                      /\ tasks'[Len(tasks')].task_type = VOTE_INITIATE
                      /\ tasks'[Len(tasks')].status = QUEUED
                      /\ tasks'[Len(tasks')].rel = r
                      /\ tasks'[Len(tasks')].email_to = e))]_vars

\* A start to a list that is not permitted has been refused and the
\* release is still a candidate draft without a vote task.
C14_Witness ==
    \E s \in Sessions :
        /\ ses[s].ret = "AccessError" /\ ses[s].msg = InvalidMailingList
        /\ tasks = <<>>
        /\ \A r \in Releases : phase[r] = CANDIDATE_DRAFT

\* ======================================================== atr/tabulate.py
\* -------------------------------------------------------------- bounds
MaxLines == 3

\* The writer is not involved in a tabulation.
NoWriter ==
    /\ phase = [r \in Releases |-> CANDIDATE_DRAFT]
    /\ podling_thread_id = [r \in Releases |-> None]
    /\ revisions = [r \in Releases |-> 1]
    /\ tasks = <<>>
    /\ committee = [r \in Releases |-> "pmc"]
    /\ dev = FALSE
    /\ ses = [s \in Sessions |-> Returned("none", "")]

\* ------------------------------------------------------------- strings
\* A str is the sequence of its characters.
\* str.startswith
startswith(line, prefix) ==
    /\ Len(line) >= Len(prefix)
    /\ SubSeq(line, 1, Len(prefix)) = prefix
\* sub in line
contains(line, sub) ==
    \E i \in 1..(Len(line) - Len(sub) + 1) :
        SubSeq(line, i, i + Len(sub) - 1) = sub
\* line[a:b]: the characters at the 0-based places a..b-1 that exist.
slice(line, a, b) ==
    SubSeq(line, a + 1, IF b < Len(line) THEN b ELSE Len(line))

\* ------------------------------------------------------------ the enums
\* class Vote (tabulate.py:29-33)
YES == "Yes"
NO == "No"
ABSTAIN == "-"
Vote_UNKNOWN == "?"
Vote == {YES, NO, ABSTAIN, Vote_UNKNOWN}

\* class VoteStatus (tabulate.py:36-40)
BINDING == "Binding"
COMMITTER == "Committer"
CONTRIBUTOR == "Contributor"
VoteStatus_UNKNOWN == "Unknown"
VoteStatus == {BINDING, COMMITTER, CONTRIBUTOR, VoteStatus_UNKNOWN}

\* ------------------------------------------------------- the ballot parser
\* Variant of _vote_continue: quoted lines are not skipped.
_vote_continue_templates_only(line) ==
    \/ contains(line, <<"[", " ", "]", " ", "+", "1">>)
    \/ contains(line, <<"[", " ", "]", " ", "-", "1">>)
    \/ contains(line, <<"b", "i", "n", "d", "i", "n", "g", " ", "+", "1",
                        " ", "v", "o", "t", "e", "s">>)
    \/ contains(line, <<"b", "i", "n", "d", "i", "n", "g", " ", "-", "1",
                        " ", "v", "o", "t", "e", "s">>)

\* tabulate.py:258-272
_vote_continue(line) ==
    \/ contains(line, <<"[", " ", "]", " ", "+", "1">>)
    \/ contains(line, <<"[", " ", "]", " ", "-", "1">>)
    \/ contains(line, <<"b", "i", "n", "d", "i", "n", "g", " ", "+", "1",
                        " ", "v", "o", "t", "e", "s">>)
    \/ contains(line, <<"b", "i", "n", "d", "i", "n", "g", " ", "-", "1",
                        " ", "v", "o", "t", "e", "s">>)
    \/ startswith(line, <<">">>)

\* Variant of _vote_break: only the signature separator ends the scan.
_vote_break_signature_only(line) == line = <<"-", "-", " ">>

\* tabulate.py:218-231
_vote_break(line) ==
    \/ line = <<"-", "-", " ">>
    \/ (startswith(line, <<"O", "n", " ">>) /\ slice(line, 6, 8) = <<",", " ">>)
    \/ startswith(line, <<"F", "r", "o", "m", ":", " ">>)
    \/ startswith(line, <<"_", "_", "_", "_", "_", "_", "_", "_">>)

\* tabulate.py:242-245
plus_one(line) ==
    startswith(line, <<"+", "1">>) \/ contains(line, <<" ", "+", "1">>)
minus_one(line) ==
    startswith(line, <<"-", "1">>) \/ contains(line, <<" ", "-", "1">>)
zero(line) ==
    \/ line \in {<<"0">>, <<"-", "0">>, <<"+", "0">>}
    \/ startswith(line, <<"0", " ">>)
    \/ startswith(line, <<"+", "0", " ">>)
    \/ startswith(line, <<"-", "0", " ">>)

\* Variant of _vote_castings_classify: a confusing line is not dropped, the
\* first predicate that holds decides.
_vote_castings_classify_first_match(line, cast) ==
    IF plus_one(line) THEN Append(cast, <<YES, line>>)
    ELSE IF minus_one(line) THEN Append(cast, <<NO, line>>)
    ELSE IF zero(line) THEN Append(cast, <<ABSTAIN, line>>)
    ELSE cast

\* tabulate.py:242-254: the castings after a line that is neither skipped
\* nor a break.
_vote_castings_classify(line, cast) ==
    IF \/ (plus_one(line) /\ minus_one(line))
       \/ (plus_one(line) /\ zero(line))
       \/ (minus_one(line) /\ zero(line))
      THEN cast
    ELSE IF plus_one(line) THEN Append(cast, <<YES, line>>)
    ELSE IF minus_one(line) THEN Append(cast, <<NO, line>>)
    ELSE IF zero(line) THEN Append(cast, <<ABSTAIN, line>>)
    ELSE cast

\* The loop of _vote_castings from line i on (tabulate.py:236-255).
RECURSIVE _vote_castings_from(_, _, _)
_vote_castings_from(lines, i, cast) ==
    IF i > Len(lines) THEN cast
    ELSE IF _vote_continue(lines[i]) THEN _vote_castings_from(lines, i + 1, cast)
    ELSE IF _vote_break(lines[i]) THEN cast
    ELSE _vote_castings_from(lines, i + 1, _vote_castings_classify(lines[i], cast))

\* tabulate.py:234-255
_vote_castings(lines) == _vote_castings_from(lines, 1, <<>>)

\* The lines bodies are made of.
Lines ==
    { <<>>,                                                \* ""
      <<"o", "k">>,                                        \* "ok"
      <<"+", "1">>,                                        \* "+1"
      <<"-", "1">>,                                        \* "-1"
      <<"0">>,                                             \* "0"
      <<"+", "1", " ", "-", "1">>,                         \* "+1 -1"
      <<"0", " ", "+", "1">>,                              \* "0 +1"
      <<"0", " ", "-", "1">>,                              \* "0 -1"
      <<"0", " ", "+", "1", " ", "-", "1">>,               \* "0 +1 -1"
      <<">", " ", "+", "1">>,                              \* "> +1"
      <<">", "-", "-", " ">>,                              \* ">-- "
      <<"-", "-", " ">>,                                   \* "-- "
      <<"[", " ", "]", " ", "+", "1">>,                    \* "[ ] +1"
      <<"O", "n", " ", "M", "o", "n", ",", " ", "+", "1">>, \* "On Mon, +1"
      <<"O", "n", " ", "a", ",", " ", "+", "1">>,           \* "On a, +1"
      <<"F", "r", "o", "m", ":", " ", "a", " ", "+", "1">>, \* "From: a +1"
      <<"_", "_", "_", "_", "_", "_", "_", "_", " ", "+", "1">>  \* "________ +1"
    }
QuotedLines == {l \in Lines : startswith(l, <<">">>)}

\* body.split("\n") yields at least one line.
RECURSIVE SeqsUpTo(_, _)
SeqsUpTo(S, n) ==
    IF n = 0 THEN {<<>>}
    ELSE LET shorter == SeqsUpTo(S, n - 1)
         IN  shorter \cup {Append(q, x) : q \in {p \in shorter : Len(p) = n - 1}, x \in S}
Bodies == SeqsUpTo(Lines, MaxLines) \ {<<>>}

\* _vote_castings is called with a body.
BallotInit ==
    /\ NoWriter
    /\ NoInteraction
    /\ votes_committee = None
    /\ thread_messages = <<>>
    /\ tabulating = FALSE
    /\ start_unixtime = None
    /\ tabulated_votes = <<>>
    /\ outcome = <<>>
    /\ summary = <<>>
    /\ body_lines \in Bodies
    /\ line_no = 1
    /\ castings = <<>>

\* The loop of _vote_castings has ended and castings is returned.
Returning == line_no > Len(body_lines)

\* One pass of the loop of _vote_castings (tabulate.py:236-254).
_vote_castings_line ==
    /\ line_no \in 1..Len(body_lines)
    /\ LET line == body_lines[line_no]
       IN  IF _vote_continue(line)
             THEN line_no' = line_no + 1 /\ castings' = castings
           ELSE IF _vote_break(line)
             THEN line_no' = Len(body_lines) + 1 /\ castings' = castings
           ELSE /\ line_no' = line_no + 1
                /\ castings' = _vote_castings_classify(line, castings)
    /\ UNCHANGED <<writer, interaction, votes_committee, thread_messages, tabulating, start_unixtime,
                   tabulated_votes, outcome, summary, body_lines>>

\* _vote_castings is called again with the body changed to new_body.
Reparse(new_body) ==
    /\ Returning
    /\ body_lines' = new_body
    /\ castings' = _vote_castings(new_body)
    /\ line_no' = Len(new_body) + 1
    /\ UNCHANGED <<writer, interaction, votes_committee, thread_messages, tabulating, start_unixtime,
                   tabulated_votes, outcome, summary>>

\* The body with line q put before its line i (i = Len + 1: at the end).
Inserted(lines, i, q) ==
    SubSeq(lines, 1, i - 1) \o <<q>> \o SubSeq(lines, i, Len(lines))
\* The body without its line i.
Removed(lines, i) ==
    SubSeq(lines, 1, i - 1) \o SubSeq(lines, i + 1, Len(lines))

\* A quoted line is put into the body, taken out of it, or changed.
InsertQuoted(i, q) ==
    /\ Len(body_lines) < MaxLines
    /\ i \in 1..(Len(body_lines) + 1)
    /\ q \in QuotedLines
    /\ Reparse(Inserted(body_lines, i, q))
RemoveQuoted(i) ==
    /\ Len(body_lines) > 1
    /\ i \in 1..Len(body_lines)
    /\ body_lines[i] \in QuotedLines
    /\ Reparse(Removed(body_lines, i))
ChangeQuoted(i, q) ==
    /\ i \in 1..Len(body_lines)
    /\ body_lines[i] \in QuotedLines
    /\ q \in QuotedLines \ {body_lines[i]}
    /\ Reparse([body_lines EXCEPT ![i] = q])

BallotNext ==
    \/ _vote_castings_line
    \/ \E i \in 1..(MaxLines + 1), q \in QuotedLines : InsertQuoted(i, q)
    \/ \E i \in 1..MaxLines : RemoveQuoted(i)
    \/ \E i \in 1..MaxLines, q \in QuotedLines : ChangeQuoted(i, q)

SpecBallot == BallotInit /\ [][BallotNext]_vars

\* ------------------------------------------------ claims on the parser
\* C18: lines that begin with ">" cannot alter the castings: putting such a
\* line into a body (at any place, also before a break line), taking one
\* out or changing one leaves the list _vote_castings returns unchanged.
C18_QuoteIsolation ==
    [][(body_lines' # body_lines) => (castings' = castings)]_vars

\* A body with a quoted vote above the voter's own vote and a signature
\* has been parsed: the one casting is the voter's own line.
C18_Witness ==
    /\ Returning
    /\ Len(body_lines) = 3
    /\ body_lines[1] = <<">", " ", "+", "1">>
    /\ body_lines[2] = <<"-", "1">>
    /\ body_lines[3] = <<"-", "-", " ">>
    /\ castings = << <<NO, <<"-", "1">> >> >>

\* How many of plus_one, minus_one and zero hold for the line.
Matches(line) ==
    Cardinality({p \in {"plus_one", "minus_one", "zero"} :
                    \/ (p = "plus_one" /\ plus_one(line))
                    \/ (p = "minus_one" /\ minus_one(line))
                    \/ (p = "zero" /\ zero(line))})

\* C19: a line the parser classifies (neither skipped nor a break line)
\* for which at least two of plus_one, minus_one and zero hold adds no
\* casting and the scan goes on with the next line; one for which exactly
\* one holds adds exactly one casting: YES, NO or ABSTAIN respectively.
C19_AmbiguityRejection ==
    [][(/\ line_no \in 1..Len(body_lines)
        /\ body_lines' = body_lines
        /\ ~_vote_continue(body_lines[line_no])
        /\ ~_vote_break(body_lines[line_no]))
       => LET line == body_lines[line_no]
          IN  /\ line_no' = line_no + 1
              /\ (Matches(line) >= 2) => (castings' = castings)
              /\ (Matches(line) = 1) =>
                    castings' = Append(castings,
                        << (IF plus_one(line) THEN YES
                            ELSE IF minus_one(line) THEN NO ELSE ABSTAIN), line >>)]_vars

\* A body whose first line is "+1 -1" and whose second is "0" has been
\* parsed: the first line was dropped, the second is the one casting.
C19_Witness ==
    /\ Returning
    /\ Len(body_lines) >= 2
    /\ body_lines[1] = <<"+", "1", " ", "-", "1">>
    /\ body_lines[2] = <<"0">>
    /\ castings = << <<ABSTAIN, <<"0">> >> >>

\* A break line as the rule names it: "-- ", or "On " with ", " as its 7th
\* and 8th characters, or a line that starts with "From: " or with eight
\* underscores.
BreakLine(line) ==
    \/ line = <<"-", "-", " ">>
    \/ /\ Len(line) >= 8
       /\ <<line[1], line[2], line[3]>> = <<"O", "n", " ">>
       /\ <<line[7], line[8]>> = <<",", " ">>
    \/ /\ Len(line) >= 6
       /\ SubSeq(line, 1, 6) = <<"F", "r", "o", "m", ":", " ">>
    \/ /\ Len(line) >= 8
       /\ \A k \in 1..8 : line[k] = "_"
\* The place of the first break line of the body that is not skipped; past
\* the end when there is none.
FirstBreak ==
    LET breaks == {i \in 1..Len(body_lines) :
                      ~_vote_continue(body_lines[i]) /\ BreakLine(body_lines[i])}
    IN  IF breaks = {} THEN Len(body_lines) + 1
        ELSE CHOOSE i \in breaks : \A j \in breaks : i <= j

\* C26: when the parser has met a break line that is not skipped, no later
\* line of the body contributes a casting: the castings returned are those
\* of the lines before the first such line alone, and they are lines from
\* before it, in the order of the body.
C26_BreakRule ==
    Returning =>
        /\ castings = _vote_castings(SubSeq(body_lines, 1, FirstBreak - 1))
        /\ \E from \in [1..Len(castings) -> 1..Len(body_lines)] :
               /\ \A k \in 1..Len(castings) :
                      /\ from[k] < FirstBreak
                      /\ castings[k][2] = body_lines[from[k]]
               /\ \A k \in 1..(Len(castings) - 1) : from[k] < from[k + 1]

\* A vote, then a quoted header with a vote in it, then another vote: only
\* the first line is a casting.
C26_Witness ==
    /\ Returning
    /\ body_lines = << <<"+", "1">>,
                       <<"F", "r", "o", "m", ":", " ", "a", " ", "+", "1">>,
                       <<"-", "1">> >>
    /\ castings = << <<YES, <<"+", "1">> >> >>

\* ------------------------------------------------------- the tabulator
MaxMessages == 4

\* A header or an address is the sequence of its tokens; a uid is the
\* string of one token.
\* str.lower
lower(token) ==
    CASE token = "Alice" -> "alice"
      [] token = "Bob" -> "bob"
      [] OTHER -> token

\* The From: headers of the thread.
FromRaw ==
    { <<"Alice", "<", "Alice", "@", "apache.org", ">">>,
      <<"Al", "<", "al", "@", "example.org", ".invalid", ">">>,
      <<"Bob", "<", "Bob", "@", "example.org", ">">>,
      <<>> }

\* util.email_from_uid: the address between "<" and ">", in lower case;
\* the empty string when the header holds none.
email_from_uid(from_raw) ==
    IF \E i \in 1..Len(from_raw) : from_raw[i] = "<"
      THEN LET open == CHOOSE i \in 1..Len(from_raw) : from_raw[i] = "<"
               address == SubSeq(from_raw, open + 1, Len(from_raw) - 1)
           IN  [i \in 1..Len(address) |-> lower(address[i])]
      ELSE <<>>

\* util.email_to_uid_map(): the directory snapshot, address -> uid.
email_to_uid == [a \in {<<"al", "@", "example.org">>} |-> <<"alice">>]

\* str.removesuffix, str.endswith
removesuffix(s, suffix) ==
    IF Len(s) >= Len(suffix) /\ SubSeq(s, Len(s) - Len(suffix) + 1, Len(s)) = suffix
      THEN SubSeq(s, 1, Len(s) - Len(suffix)) ELSE s
endswith(s, suffix) ==
    Len(s) >= Len(suffix) /\ SubSeq(s, Len(s) - Len(suffix) + 1, Len(s)) = suffix

\* asf_uid is None: the sender has no uid.
NoUid == <<>>

\* tabulate.py:275-285: <<ok, from_email_lower, asf_uid>>
_vote_identity(from_raw, directory) ==
    LET from_email_lower == removesuffix(email_from_uid(from_raw), <<".invalid">>)
    IN  IF email_from_uid(from_raw) = <<>> THEN <<FALSE, <<>>, NoUid>>
        ELSE IF endswith(from_email_lower, <<"@", "apache.org">>)
          THEN <<TRUE, from_email_lower, <<from_email_lower[1]>> >>
        ELSE IF from_email_lower \in DOMAIN directory
          THEN <<TRUE, from_email_lower, directory[from_email_lower]>>
        ELSE <<TRUE, from_email_lower, NoUid>>

\* The committee votes is called with, and the committees of the database.
NoCommittee == [name |-> "", committee_members |-> {}, committers |-> {}]
Tooling ==
    [name |-> "tooling", committee_members |-> {<<"alice">>},
     committers |-> {<<"alice">>, <<"carol">>}]
\* data.committee(name=committee_label).get()
committee_named(label) == IF label = "tooling" THEN Tooling ELSE NoCommittee
\* list_raw of the messages of the thread: "<dev.tooling.apache.org>".
ListRaw == <<"<dev", ".", "tooling", ".apache.org", ">">>
\* list_raw.split(".apache.org", 1)[0].split(".", 1)[-1]
committee_label(list_raw) ==
    LET head == SubSeq(list_raw, 1,
                       (CHOOSE i \in 1..Len(list_raw) : list_raw[i] = ".apache.org") - 1)
    IN  head[Len(head)]

\* Variant of _vote_status: the committers are looked at before the members.
_vote_status_committers_first(asf_uid, list_raw, given) ==
    LET found == IF dev THEN committee_named(committee_label(list_raw)) ELSE given
    IN  IF found = NoCommittee THEN VoteStatus_UNKNOWN
        ELSE IF asf_uid \in found.committers THEN COMMITTER
        ELSE IF asf_uid \in found.committee_members THEN BINDING
        ELSE CONTRIBUTOR

\* tabulate.py:395-409
_vote_status(asf_uid, list_raw, given) ==
    LET found == IF dev THEN committee_named(committee_label(list_raw)) ELSE given
    IN  IF found = NoCommittee THEN VoteStatus_UNKNOWN
        ELSE IF asf_uid \in found.committee_members THEN BINDING
        ELSE IF asf_uid \in found.committers THEN COMMITTER
        ELSE CONTRIBUTOR

\* The subjects of the thread, as their words.
VoteMailSubject == <<"Re:", "[VOTE]", "Release", "app", "1.0">>
ResultMailSubject == <<"[VOTE]", "[RESULT]", "Release", "app", "1.0", "PASSED">>
Subjects == {VoteMailSubject, ResultMailSubject}

\* The bodies of the mails of the thread, as their lines; <<>> is the
\* empty body.
MailBodies ==
    { <<>>,
      << <<"o", "k">> >>,
      << <<"+", "1">> >>,
      << <<"-", "1">> >>,
      << <<"+", "1">>, <<"-", "1">> >> }
ResultMailBody == << <<"o", "k">> >>

\* " // ".join(lines)
RECURSIVE join(_)
join(strs) ==
    IF Len(strs) = 0 THEN <<>>
    ELSE IF Len(strs) = 1 THEN strs[1]
    ELSE strs[1] \o <<" ", "/", "/", " ">> \o join(Tail(strs))

\* The key a message is tabulated under (tabulate.py:71-76).
asf_uid_or_email(msg) ==
    LET identity == _vote_identity(msg.from_raw, email_to_uid)
    IN  IF identity[3] # NoUid THEN identity[3] ELSE identity[2]

\* Variant of VoteEmail: the first casting is the vote of the message.
VoteEmail_first_casting(msg, given, updated) ==
    LET identity == _vote_identity(msg.from_raw, email_to_uid)
        cast == _vote_castings(msg.body)
    IN  [asf_uid_or_email |-> asf_uid_or_email(msg),
         from_email |-> identity[2],
         status |-> IF identity[3] # NoUid
                      THEN _vote_status(identity[3], msg.list_raw, given)
                      ELSE VoteStatus_UNKNOWN,
         asf_eid |-> msg.mid,
         iso_datetime |-> msg.date,
         vote |-> cast[1][1],
         quotation |-> join([i \in 1..Len(cast) |-> cast[i][2]]),
         updated |-> updated]

\* The VoteEmail built from a message with castings (tabulate.py:96-111).
VoteEmail(msg, given, updated) ==
    LET identity == _vote_identity(msg.from_raw, email_to_uid)
        cast == _vote_castings(msg.body)
    IN  [asf_uid_or_email |-> asf_uid_or_email(msg),
         from_email |-> identity[2],
         status |-> IF identity[3] # NoUid
                      THEN _vote_status(identity[3], msg.list_raw, given)
                      ELSE VoteStatus_UNKNOWN,
         asf_eid |-> msg.mid,
         iso_datetime |-> msg.date,
         vote |-> IF Len(cast) = 1 THEN cast[1][1] ELSE Vote_UNKNOWN,
         quotation |-> join([i \in 1..Len(cast) |-> cast[i][2]]),
         updated |-> updated]

\* dict item assignment: tabulated_votes[key] = value
Assigned(map, key, value) ==
    [k \in DOMAIN map \cup {key} |-> IF k = key THEN value ELSE map[k]]

\* votes is called: nothing read yet (tabulate.py:63-64).
TabulatorInit ==
    /\ NoWriter
    /\ NoInteraction
    /\ votes_committee = Tooling
    /\ thread_messages = <<>>
    /\ tabulating = TRUE
    /\ start_unixtime = None
    /\ tabulated_votes = <<>>
    /\ outcome = <<>>
    /\ summary = <<>>
    /\ body_lines = <<>>
    /\ line_no = 0
    /\ castings = <<>>

\* Variant of votes_message: the subject is looked at before the sender.
votes_message_subject_first(from_raw, subject, mail_body) ==
    LET n == Len(thread_messages) + 1
        msg == [mid |-> n, epoch |-> n, date |-> n, from_raw |-> from_raw,
                list_raw |-> ListRaw, subject |-> subject, body |-> mail_body]
        identity == _vote_identity(from_raw, email_to_uid)
        key == asf_uid_or_email(msg)
    IN  /\ tabulating
        /\ thread_messages' = Append(thread_messages, msg)
        /\ IF contains(subject, <<"[RESULT]">>)
             THEN /\ tabulating' = FALSE
                  /\ UNCHANGED <<start_unixtime, tabulated_votes>>
           ELSE IF ~identity[1]
             THEN UNCHANGED <<tabulating, start_unixtime, tabulated_votes>>
           ELSE /\ start_unixtime' = IF start_unixtime = None THEN msg.epoch
                                     ELSE start_unixtime
                /\ tabulating' = tabulating
                /\ tabulated_votes' =
                     IF mail_body = <<>> \/ _vote_castings(mail_body) = <<>>
                       THEN tabulated_votes
                       ELSE Assigned(tabulated_votes, key,
                                VoteEmail(msg, votes_committee, key \in DOMAIN tabulated_votes))
        /\ UNCHANGED <<writer, interaction, votes_committee, outcome, summary, body_lines, line_no, castings>>

\* One pass of the loop of votes (tabulate.py:65-112) over the next message
\* of the thread.
votes_message(from_raw, subject, mail_body) ==
    LET n == Len(thread_messages) + 1
        msg == [mid |-> n, epoch |-> n, date |-> n, from_raw |-> from_raw,
                list_raw |-> ListRaw, subject |-> subject, body |-> mail_body]
        identity == _vote_identity(from_raw, email_to_uid)
        key == asf_uid_or_email(msg)
    IN  /\ tabulating
        /\ thread_messages' = Append(thread_messages, msg)
        /\ IF ~identity[1]
             THEN UNCHANGED <<tabulating, start_unixtime, tabulated_votes>>
           ELSE /\ start_unixtime' = IF start_unixtime = None THEN msg.epoch
                                     ELSE start_unixtime
                /\ IF contains(subject, <<"[RESULT]">>)
                     THEN /\ tabulating' = FALSE
                          /\ tabulated_votes' = tabulated_votes
                     ELSE /\ tabulating' = tabulating
                          /\ tabulated_votes' =
                               IF mail_body = <<>> \/ _vote_castings(mail_body) = <<>>
                                 THEN tabulated_votes
                                 ELSE Assigned(tabulated_votes, key,
                                          VoteEmail(msg, votes_committee, key \in DOMAIN tabulated_votes))
        /\ UNCHANGED <<writer, interaction, votes_committee, outcome, summary, body_lines, line_no, castings>>

\* The thread has no further message: votes returns (tabulate.py:113-117).
votes_return ==
    /\ tabulating
    /\ tabulating' = FALSE
    /\ UNCHANGED <<writer, interaction, votes_committee, thread_messages, start_unixtime, tabulated_votes,
                   outcome, summary, body_lines, line_no, castings>>

\* The thread of the model has at most MaxMessages messages.
TabulatorNext ==
    \/ /\ Len(thread_messages) < MaxMessages
       /\ \E f \in FromRaw, b \in MailBodies : votes_message(f, VoteMailSubject, b)
    \/ /\ Len(thread_messages) < MaxMessages
       /\ \E f \in FromRaw : votes_message(f, ResultMailSubject, ResultMailBody)
    \/ votes_return

SpecTabulator == TabulatorInit /\ [][TabulatorNext]_vars

\* The entries of short threads, for every kind of sender and with or
\* without a committee.
MaxReplies == 2
Senders ==
    FromRaw \cup { <<"Carol", "<", "carol", "@", "apache.org", ">">>,
                   <<"Dave", "<", "dave", "@", "apache.org", ">">> }

EntriesInit ==
    /\ NoWriter
    /\ NoInteraction
    /\ votes_committee \in {NoCommittee, Tooling}
    /\ thread_messages = <<>>
    /\ tabulating = TRUE
    /\ start_unixtime = None
    /\ tabulated_votes = <<>>
    /\ outcome = <<>>
    /\ summary = <<>>
    /\ body_lines = <<>>
    /\ line_no = 0
    /\ castings = <<>>

EntriesNext ==
    \/ /\ Len(thread_messages) < MaxReplies
       /\ \E f \in Senders, b \in MailBodies : votes_message(f, VoteMailSubject, b)
    \/ /\ Len(thread_messages) < MaxReplies
       /\ \E f \in Senders : votes_message(f, ResultMailSubject, ResultMailBody)
    \/ votes_return

SpecEntries == EntriesInit /\ [][EntriesNext]_vars

\* ---------------------------------------------- claims on the tabulator
\* The place of the first message whose subject contains "[RESULT]"; past
\* the end of the thread when there is none.
FirstResult ==
    LET result_mails == {i \in 1..Len(thread_messages) :
                            contains(thread_messages[i].subject, <<"[RESULT]">>)}
    IN  IF result_mails = {} THEN Len(thread_messages) + 1
        ELSE CHOOSE i \in result_mails : \A j \in result_mails : i <= j

\* The messages before any [RESULT] message that cast a vote under the key.
VotesOf(key) ==
    {i \in 1..Len(thread_messages) :
        /\ i < FirstResult
        /\ _vote_identity(thread_messages[i].from_raw, email_to_uid)[1]
        /\ asf_uid_or_email(thread_messages[i]) = key
        /\ _vote_castings(thread_messages[i].body) # <<>>}

\* C15: last write wins: when a voter key has two or more voting messages
\* in the thread before any [RESULT] message, the entry of the key in the
\* map votes returns is the parse of the last of them, with updated = true.
C15_LastWriteWins ==
    ~tabulating =>
        \A i \in 1..Len(thread_messages) :
            LET key == asf_uid_or_email(thread_messages[i])
            IN  (i \in VotesOf(key) /\ Cardinality(VotesOf(key)) >= 2)
                => /\ key \in DOMAIN tabulated_votes
                   /\ tabulated_votes[key] =
                        VoteEmail(thread_messages[Max(VotesOf(key))], votes_committee, TRUE)

\* C16: no message at or after the first message whose subject contains
\* "[RESULT]" contributes an entry or an override to the map, whoever sent
\* that message: every entry comes from a message before it.
C16_ResultCutoff ==
    \A key \in DOMAIN tabulated_votes :
        tabulated_votes[key].asf_eid < FirstResult

\* ------------------------------------------------- the outcome evaluator
MaxVoters == 6

\* A duration of None; a duration of n hours is <<n>>.
NoHours == <<>>
Hours(n) == <<n>>
\* release.project.release_policy: None, or a policy with its min_hours.
NoPolicy == <<>>
ReleasePolicy(min_hours) == <<min_hours>>
\* release.project: None, or a project with its release_policy.
NoProject == <<>>
Project(release_policy) == <<release_policy>>
Projects ==
    {NoProject, Project(NoPolicy)}
    \cup {Project(ReleasePolicy(min_hours)) : min_hours \in {NoHours, Hours(0), Hours(24)}}
\* start_unixtime handed to vote_outcome and int(time.time()), in seconds;
\* the times of the model are whole hours.
StartTimes == {None, 3600}
Now == 176400

\* Variant of _vote_outcome_format: a tie of three or more passes.
_vote_outcome_format_tie_passes(duration_hours_remaining, binding_plus_one, binding_minus_one) ==
    <<(binding_plus_one >= 3) /\ (binding_plus_one >= binding_minus_one), <<>> >>

\* tabulate.py:288-307: <<passed, message>>
_vote_outcome_format(duration_hours_remaining, binding_plus_one, binding_minus_one) ==
    LET outcome_passed == (binding_plus_one >= 3) /\ (binding_plus_one > binding_minus_one)
        open == duration_hours_remaining # NoHours /\ duration_hours_remaining[1] > 0
    IN  IF ~outcome_passed
          THEN IF open
                 THEN <<FALSE, <<"The vote is still open for", duration_hours_remaining[1],
                                 "hours, but it would fail if closed now.">> >>
               ELSE IF duration_hours_remaining = NoHours
                 THEN <<FALSE, <<"The vote would fail if closed now.">> >>
               ELSE <<FALSE, <<"The vote failed.">> >>
        ELSE IF open
          THEN <<TRUE, <<"The vote is still open for", duration_hours_remaining[1],
                         "hours, but it would pass if closed now.">> >>
        ELSE <<TRUE, <<"The vote passed.">> >>

\* Variant of binding_count: the status of the entry is not looked at.
RECURSIVE binding_count_any_status(_, _, _)
binding_count_any_status(votes_map, keys, counts) ==
    IF keys = {} THEN counts
    ELSE LET key == CHOOSE k \in keys : TRUE
             vote_email == votes_map[key]
         IN  binding_count_any_status(votes_map, keys \ {key},
                IF vote_email.vote = YES THEN <<counts[1] + 1, counts[2]>>
                ELSE IF vote_email.vote = NO THEN <<counts[1], counts[2] + 1>>
                ELSE counts)

\* The loop of vote_outcome over tabulated_votes.values() (tabulate.py:
\* 150-158): <<binding_plus_one, binding_minus_one>>.
RECURSIVE binding_count(_, _, _)
binding_count(votes_map, keys, counts) ==
    IF keys = {} THEN counts
    ELSE LET key == CHOOSE k \in keys : TRUE
             vote_email == votes_map[key]
         IN  binding_count(votes_map, keys \ {key},
                IF vote_email.status # BINDING THEN counts
                ELSE IF vote_email.vote = YES THEN <<counts[1] + 1, counts[2]>>
                ELSE IF vote_email.vote = NO THEN <<counts[1], counts[2] + 1>>
                ELSE counts)

\* tabulate.py:137-140
duration_hours(start_time) ==
    IF start_time # None THEN (Now - start_time) \div 3600 ELSE 0

\* tabulate.py:142-145: "min_hours or None" turns 0 and None into None.
min_duration_hours(project) ==
    IF project # NoProject /\ project[1] # NoPolicy
      THEN LET min_hours == project[1][1]
           IN  IF min_hours = NoHours \/ min_hours[1] = 0
                 THEN NoHours ELSE min_hours
    ELSE Hours(72)

\* tabulate.py:146-148
duration_hours_remaining(project, start_time) ==
    IF min_duration_hours(project) = NoHours THEN NoHours
    ELSE Hours(min_duration_hours(project)[1] - duration_hours(start_time))

\* tabulate.py:134-160
vote_outcome(project, start_time, votes_map) ==
    LET counts == binding_count(votes_map, DOMAIN votes_map, <<0, 0>>)
    IN  _vote_outcome_format(duration_hours_remaining(project, start_time),
                             counts[1], counts[2])

\* A tabulated map is built up to the names of its keys: the entry of the
\* n-th voter with a given status and vote has the key <<status, vote, n>>.
OutcomeInit ==
    /\ NoWriter
    /\ NoInteraction
    /\ votes_committee = None
    /\ thread_messages = <<>>
    /\ tabulating = FALSE
    /\ start_unixtime = None
    /\ tabulated_votes = <<>>
    /\ outcome = <<>>
    /\ summary = <<>>
    /\ body_lines = <<>>
    /\ line_no = 0
    /\ castings = <<>>

\* One more voter's entry in the map handed to vote_outcome.
Tabulated(status, vote) ==
    LET same == {k \in DOMAIN tabulated_votes : k[1] = status /\ k[2] = vote}
        key == <<status, vote, Cardinality(same) + 1>>
    IN  /\ outcome = <<>>
        /\ summary = <<>>
        /\ Cardinality(DOMAIN tabulated_votes) < MaxVoters
        /\ tabulated_votes' = Assigned(tabulated_votes, key,
               [asf_uid_or_email |-> key, from_email |-> key, status |-> status,
                asf_eid |-> 0, iso_datetime |-> 0, vote |-> vote,
                quotation |-> <<>>, updated |-> FALSE])
        /\ UNCHANGED <<writer, interaction, votes_committee, thread_messages, tabulating, start_unixtime,
                       outcome, summary, body_lines, line_no, castings>>

\* vote_outcome is called with the map.
Evaluate(project, start_time) ==
    /\ outcome = <<>>
    /\ start_unixtime' = start_time
    /\ outcome' = vote_outcome(project, start_time, tabulated_votes)
    /\ UNCHANGED <<writer, interaction, votes_committee, thread_messages, tabulating, tabulated_votes,
                   summary, body_lines, line_no, castings>>

OutcomeNext ==
    \/ \E status \in VoteStatus, vote \in Vote : Tabulated(status, vote)
    \/ \E project \in Projects, start_time \in StartTimes : Evaluate(project, start_time)

SpecOutcome == OutcomeInit /\ [][OutcomeNext]_vars

\* ------------------------------------------------ claims on the outcome
\* The entries of the map with the given status and vote.
Entries(status, vote) ==
    {k \in DOMAIN tabulated_votes :
        tabulated_votes[k].status = status /\ tabulated_votes[k].vote = vote}

\* C20: vote_outcome reports passed = true exactly when the entries with
\* status BINDING and vote YES are at least 3 and strictly more than the
\* entries with status BINDING and vote NO; entries of any other status
\* do not count.
C20_OutcomeThreshold ==
    (outcome # <<>>) =>
        (outcome[1] <=> (/\ Cardinality(Entries(BINDING, YES)) >= 3
                         /\ Cardinality(Entries(BINDING, YES)) >
                              Cardinality(Entries(BINDING, NO))))

\* Three binding +1 against three binding -1: the vote did not pass.
C20_Witness ==
    /\ outcome # <<>>
    /\ Cardinality(Entries(BINDING, YES)) = 3
    /\ Cardinality(Entries(BINDING, NO)) = 3
    /\ outcome[1] = FALSE

\* The minimum duration as the policy states it: min_hours when positive,
\* 72 when there is no policy or no min_hours, none when min_hours is 0.
StatedMinimum(project) ==
    IF project = NoProject \/ project[1] = NoPolicy THEN Hours(72)
    ELSE IF project[1][1] = NoHours THEN Hours(72)
    ELSE IF project[1][1][1] = 0 THEN NoHours
    ELSE project[1][1]

\* The message tells the hours that remain of the given minimum: the open
\* template with that number while hours remain, a closed one otherwise.
Tells(message, minimum, start_time) ==
    IF minimum # NoHours /\ minimum[1] - duration_hours(start_time) > 0
      THEN /\ Len(message) = 3
           /\ message[2] = minimum[1] - duration_hours(start_time)
    ELSE Len(message) = 1

\* C21: the minimum duration vote_outcome uses is the policy's min_hours
\* when positive, 72 hours when the release has no policy or the policy has
\* no min_hours, and none only when min_hours is 0.
C21_MinimumDuration ==
    [][\A project \in Projects, start_time \in StartTimes :
          Evaluate(project, start_time) =>
              Tells(outcome'[2], StatedMinimum(project), start_time)]_vars

\* C22: the message is one of four templates chosen by passed and the
\* remaining hours: the open template with the hours and "pass" or "fail"
\* when hours remain, "The vote passed." or "The vote failed." in every
\* other case (no hours remain, or there is no minimum).
C22_FourTemplates ==
    [][\A project \in Projects, start_time \in StartTimes :
          Evaluate(project, start_time) =>
              LET remaining == duration_hours_remaining(project, start_time)
              IN  IF remaining # NoHours /\ remaining[1] > 0
                    THEN outcome'[2] =
                           <<"The vote is still open for", remaining[1],
                             IF outcome'[1]
                               THEN "hours, but it would pass if closed now."
                               ELSE "hours, but it would fail if closed now.">>
                  ELSE outcome'[2] =
                           IF outcome'[1] THEN <<"The vote passed.">>
                                          ELSE <<"The vote failed.">>]_vars

\* ------------------------------------------------------- trusted_jwt
\* class TrustedProjectPhase (interaction.py:72-75)
COMPOSE == "compose"
VOTE == "vote"
FINISH == "finish"
TrustedProjectPhase == {COMPOSE, VOTE, FINISH}

\* str.removeprefix
removeprefix(s, prefix) ==
    IF startswith(s, prefix) THEN SubSeq(s, Len(prefix) + 1, Len(s)) ELSE s
\* s.rsplit("@", 1)[0]: what stands before the last "@".
rsplit_at(s) ==
    LET ats == {i \in 1..Len(s) : s[i] = "@"}
    IN  IF ats = {} THEN s
        ELSE SubSeq(s, 1, (CHOOSE i \in ats : \A j \in ats : j <= i) - 1)

\* The strings of a token are sequences of their parts.
ApacheFoo == <<"apache/", "foo">>
ApacheBar == <<"apache/", "bar">>
ForkFoo == <<"fork/", "foo">>
Repositories == {ApacheFoo, ApacheBar, ForkFoo}
ReleaseYml == <<".github/workflows/", "release.yml">>
BuildYml == <<".github/workflows/", "build.yml">>
ScriptYml == <<"scripts/", "release.yml">>
WorkflowPaths == {ReleaseYml, BuildYml, ScriptYml}
GitRef == <<"@", "refs/heads/main">>
WorkflowRefs ==
    {repository \o <<"/">> \o path \o GitRef :
         repository \in Repositories, path \in WorkflowPaths}
    \cup {ApacheFoo \o <<"/">> \o ReleaseYml,
          ApacheFoo \o <<"bar", "/">> \o ReleaseYml \o GitRef,
          ApacheFoo \o <<"/">> \o ReleaseYml \o <<"@", "v1">> \o GitRef}

\* registry.GITHUB_AUTOMATED_RELEASE_COMMITTEES
GITHUB_AUTOMATED_RELEASE_COMMITTEES == {"tooling"}

\* A ReleasePolicy row with its three allowlists of workflow paths.
PolicyRow(id, name, compose, vote, finish) ==
    [id |-> id, github_repository_name |-> name,
     compose |-> compose, vote |-> vote, finish |-> finish]
\* A Project row; committee is <<>> for None, else <<its name>>.
ProjectRow(name, release_policy_id, project_committee) ==
    [name |-> name, release_policy_id |-> release_policy_id,
     committee |-> project_committee]

\* The policy of foo with any allowlists over two paths, and the policy of
\* bar, which lists every path in every phase.
Allowlists == SUBSET {ReleaseYml, ScriptYml}
PolicyTables ==
    {<<PolicyRow(1, <<"foo">>, compose, vote, finish),
       PolicyRow(2, <<"bar">>, WorkflowPaths, WorkflowPaths, WorkflowPaths)>> :
         compose \in Allowlists, vote \in Allowlists, finish \in Allowlists}
\* The project of foo: missing, or in no committee, or in a committee that
\* is or is not allowed to make automated releases.
ProjectTables ==
    {<<ProjectRow("bar", 2, <<"tooling">>)>>}
    \cup {<<ProjectRow("foo", 1, project_committee), ProjectRow("bar", 2, <<"tooling">>)>> :
             project_committee \in {<<>>, <<"tooling">>, <<"other">>}}

\* A response of trusted_jwt: what it returns, or the error it raises.
Returns(project) == [kind |-> "return", detail |-> "", project |-> <<project.name>>]
Raises(kind, detail) == [kind |-> kind, detail |-> detail, project |-> <<>>]

\* interaction.py:407-419: the error raised, or the repository name and
\* the workflow path.
_trusted_project_checks(repository, workflow_ref) ==
    LET repository_name == removeprefix(repository, <<"apache/">>)
        workflow_path_at == removeprefix(workflow_ref, repository \o <<"/">>)
        workflow_path == rsplit_at(workflow_path_at)
    IN  IF ~startswith(repository, <<"apache/">>)
          THEN [error |-> "Repository must start with 'apache/'",
                repository_name |-> <<>>, workflow_path |-> <<>>]
        ELSE IF ~startswith(workflow_ref, repository \o <<"/">>)
          THEN [error |-> "Workflow ref must start with repository",
                repository_name |-> <<>>, workflow_path |-> <<>>]
        ELSE IF ~contains(workflow_path_at, <<"@">>)
          THEN [error |-> "Workflow path must contain '@'",
                repository_name |-> <<>>, workflow_path |-> <<>>]
        ELSE IF ~startswith(workflow_path, <<".github/workflows/">>)
          THEN [error |-> "Workflow path must start with '.github/workflows/'",
                repository_name |-> <<>>, workflow_path |-> <<>>]
        ELSE [error |-> "", repository_name |-> repository_name,
              workflow_path |-> workflow_path]

\* The allowlist of a policy row that the phase names.
AllowlistOf(policy, trusted_phase) ==
    CASE trusted_phase = COMPOSE -> policy.compose
      [] trusted_phase = VOTE -> policy.vote
      [] trusted_phase = FINISH -> policy.finish

\* Variant of release_policy: the path is looked for in every allowlist.
release_policy_any_phase(repository_name, workflow_path, trusted_phase) ==
    {i \in 1..Len(policies) :
        /\ policies[i].github_repository_name = repository_name
        /\ \E other \in TrustedProjectPhase :
               workflow_path \in AllowlistOf(policies[i], other)}

\* db_data.release_policy(github_repository_name=...,
\* github_<phase>_workflow_path_has=...): the rows that match.
release_policy(repository_name, workflow_path, trusted_phase) ==
    {i \in 1..Len(policies) :
        /\ policies[i].github_repository_name = repository_name
        /\ workflow_path \in AllowlistOf(policies[i], trusted_phase)}

\* interaction.py:368-404
_trusted_project(repository, workflow_ref, trusted_phase) ==
    LET checks == _trusted_project_checks(repository, workflow_ref)
        rows == release_policy(checks.repository_name, checks.workflow_path, trusted_phase)
        policy == policies[CHOOSE i \in rows : TRUE]
        bound == {j \in 1..Len(projects) : projects[j].release_policy_id = policy.id}
        project == projects[CHOOSE j \in bound : TRUE]
    IN  IF checks.error # "" THEN Raises("InteractionError", checks.error)
        ELSE IF rows = {} THEN Raises("ReleasePolicyNotFoundError", "not found")
        ELSE IF bound = {} THEN Raises("InteractionError", "Project for release policy not found")
        ELSE IF project.committee = <<>>
          THEN Raises("InteractionError", "Project has no committee")
        ELSE IF project.committee[1] \notin GITHUB_AUTOMATED_RELEASE_COMMITTEES
          THEN Raises("InteractionError", "Project is not in a committee that can make releases")
        ELSE Returns(project)

\* The signed tokens: whether jwtoken.verify_github_oidc accepts the token,
\* whether ldap.github_to_apache knows its actor_id, and its payload.
Tokens ==
    [verified : BOOLEAN, actor_known : BOOLEAN,
     repository : Repositories, workflow_ref : WorkflowRefs]
Publishers == {"github", "gitlab"}

TrustedInit ==
    /\ NoWriter
    /\ NoTabulation
    /\ policies \in PolicyTables
    /\ projects \in ProjectTables
    /\ request = <<>>
    /\ response = <<>>
    /\ results = <<>>
    /\ listed = FALSE

\* Variant of trusted_jwt: the token is verified and the actor looked up
\* before the publisher is tested.
trusted_jwt_verify_first(publisher, jwt, trusted_phase) ==
    /\ request = <<>>
    /\ request' = <<publisher, jwt, trusted_phase>>
    /\ response' =
         IF ~jwt.verified THEN Raises("jwtoken.verify_github_oidc", "")
         ELSE IF ~jwt.actor_known THEN Raises("ldap.github_to_apache", "")
         ELSE IF publisher # "github"
           THEN Raises("InteractionError", "Publisher not supported")
         ELSE _trusted_project(jwt.repository, jwt.workflow_ref, trusted_phase)
    /\ UNCHANGED <<writer, tabulate, policies, projects, results, listed>>

\* interaction.py:137-143; one call is followed.
trusted_jwt(publisher, jwt, trusted_phase) ==
    /\ request = <<>>
    /\ request' = <<publisher, jwt, trusted_phase>>
    /\ response' =
         IF publisher # "github"
           THEN Raises("InteractionError", "Publisher not supported")
         ELSE IF ~jwt.verified THEN Raises("jwtoken.verify_github_oidc", "")
         ELSE IF ~jwt.actor_known THEN Raises("ldap.github_to_apache", "")
         ELSE _trusted_project(jwt.repository, jwt.workflow_ref, trusted_phase)
    /\ UNCHANGED <<writer, tabulate, policies, projects, results, listed>>

TrustedNext ==
    \E publisher \in Publishers, jwt \in Tokens, trusted_phase \in TrustedProjectPhase :
        trusted_jwt(publisher, jwt, trusted_phase)

SpecTrusted == TrustedInit /\ [][TrustedNext]_vars

\* -------------------------------------------- claims on trusted_jwt
\* The token of the request names the repository of the policy row and,
\* as "<repository>/<path>@<git_ref>", the workflow path.
Names(jwt, policy, path) ==
    /\ jwt.repository = <<"apache/">> \o policy.github_repository_name
    /\ jwt.workflow_ref = jwt.repository \o <<"/">> \o path \o GitRef

\* C23: trusted_jwt returns a project only if a release policy with the
\* repository's name lists the workflow path in the allowlist of the phase
\* of the call, and the project is the one bound to that policy; a
\* workflow path listed only in the allowlist of another phase fails with
\* ReleasePolicyNotFoundError.
C23_PhaseIsolation ==
    (request # <<>>) =>
        LET publisher == request[1]
            jwt == request[2]
            trusted_phase == request[3]
        IN  /\ (response.kind = "return") =>
                   \E i \in 1..Len(policies) :
                       /\ \E path \in AllowlistOf(policies[i], trusted_phase) :
                              Names(jwt, policies[i], path)
                       /\ \E j \in 1..Len(projects) :
                              /\ projects[j].release_policy_id = policies[i].id
                              /\ response.project = <<projects[j].name>>
            /\ \A i \in 1..Len(policies), path \in WorkflowPaths :
                   (/\ publisher = "github"
                    /\ jwt.verified
                    /\ jwt.actor_known
                    /\ Names(jwt, policies[i], path)
                    /\ startswith(path, <<".github/workflows/">>)
                    /\ path \notin AllowlistOf(policies[i], trusted_phase)
                    /\ \E other \in TrustedProjectPhase :
                           path \in AllowlistOf(policies[i], other))
                   => response.kind = "ReleasePolicyNotFoundError"

\* The call for the vote phase returned the project of foo, whose policy
\* lists the path for the vote phase only.
C23_Returned ==
    /\ request # <<>>
    /\ request[3] = VOTE
    /\ response.kind = "return"
    /\ response.project = <<"foo">>
    /\ policies[1].vote = {ReleaseYml}
    /\ policies[1].compose = {}
    /\ policies[1].finish = {}

\* The same token for the compose phase, against the same policy: no
\* policy is found.
C23_Witness ==
    /\ request # <<>>
    /\ request[3] = COMPOSE
    /\ Names(request[2], policies[1], ReleaseYml)
    /\ policies[1].vote = {ReleaseYml}
    /\ policies[1].compose = {}
    /\ response.kind = "ReleasePolicyNotFoundError"

\* The places of "@" in what follows "<repository>/" in the workflow_ref.
AtsOf(jwt) ==
    {k \in (Len(jwt.repository) + 2)..Len(jwt.workflow_ref) : jwt.workflow_ref[k] = "@"}
\* The workflow_ref has the form "<repository>/<workflow_path>@<git_ref>".
HasForm(jwt) ==
    /\ startswith(jwt.workflow_ref, jwt.repository \o <<"/">>)
    /\ AtsOf(jwt) # {}
\* The workflow path of a workflow_ref of that form: up to its last "@".
PathOf(jwt) ==
    SubSeq(jwt.workflow_ref, Len(jwt.repository) + 2,
           (CHOOSE k \in AtsOf(jwt) : \A l \in AtsOf(jwt) : l <= k) - 1)
\* The call is refused with InteractionError and returns no project.
Rejected == response.kind = "InteractionError" /\ response.project = <<>>

\* C28: trusted_jwt raises InteractionError and returns no project when
\* the publisher is not "github", whatever the token is (it is not yet
\* verified, no actor is looked up); and, for a verified token of a known
\* actor, when the repository does not begin with "apache/", when the
\* workflow_ref has not the form "<repository>/<workflow_path>@<git_ref>",
\* when the workflow path does not begin with ".github/workflows/", or
\* when the project of the matching policy has no committee or one that is
\* not in GITHUB_AUTOMATED_RELEASE_COMMITTEES.
C28_Rejections ==
    (request # <<>>) =>
        LET publisher == request[1]
            jwt == request[2]
            trusted_phase == request[3]
        IN  /\ (publisher # "github") => Rejected
            /\ (publisher = "github" /\ jwt.verified /\ jwt.actor_known) =>
                 /\ ~startswith(jwt.repository, <<"apache/">>) => Rejected
                 /\ ~HasForm(jwt) => Rejected
                 /\ (HasForm(jwt) /\ ~startswith(PathOf(jwt), <<".github/workflows/">>))
                        => Rejected
                 /\ \A i \in 1..Len(policies), j \in 1..Len(projects) :
                        (/\ jwt.repository = <<"apache/">> \o policies[i].github_repository_name
                         /\ HasForm(jwt)
                         /\ PathOf(jwt) \in AllowlistOf(policies[i], trusted_phase)
                         /\ projects[j].release_policy_id = policies[i].id
                         /\ \/ projects[j].committee = <<>>
                            \/ projects[j].committee \notin
                                 {<<c>> : c \in GITHUB_AUTOMATED_RELEASE_COMMITTEES})
                        => Rejected

\* Another publisher with a token the verifier would refuse: the error is
\* the InteractionError of the publisher test.
C28_Witness ==
    /\ request # <<>>
    /\ request[1] = "gitlab"
    /\ ~request[2].verified
    /\ Rejected
    /\ response.detail = "Publisher not supported"

\* A verified token whose policy matches and whose project is in a
\* committee that may not make automated releases.
C28_CommitteeRefused ==
    /\ request # <<>>
    /\ response.detail = "Project is not in a committee that can make releases"

\* ------------------------------------------------------- all_releases
MaxReleases == 3

\* The characters of the versions, in the order of their code points.
CodePoints == <<"+", "-", ".", "0", "1", "2", "3", "4", "5", "6", "7", "8", "9",
                "b", "c", "r", "x">>
ord(c) == CHOOSE i \in 1..Len(CodePoints) : CodePoints[i] = c
isdigit(c) == ord(c) >= ord("0") /\ ord(c) <= ord("9")
\* str.replace of one character by another
replace(s, old, new) == [i \in 1..Len(s) |-> IF s[i] = old THEN new ELSE s[i]]
\* str.split(sep) for a separator of one character
RECURSIVE split(_, _)
split(s, sep) ==
    IF \A i \in 1..Len(s) : s[i] # sep THEN <<s>>
    ELSE LET k == CHOOSE i \in 1..Len(s) : s[i] = sep /\ \A j \in 1..(i - 1) : s[j] # sep
         IN  <<SubSeq(s, 1, k - 1)>> \o split(SubSeq(s, k + 1, Len(s)), sep)

\* int(part): <<TRUE, value>>, or <<FALSE, 0>> for ValueError.
RECURSIVE digits_value(_)
digits_value(part) ==
    IF part = <<>> THEN 0
    ELSE 10 * digits_value(SubSeq(part, 1, Len(part) - 1))
           + (ord(part[Len(part)]) - ord("0"))
int(part) ==
    IF part # <<>> /\ \A i \in 1..Len(part) : isdigit(part[i])
      THEN <<TRUE, digits_value(part)>>
    ELSE <<FALSE, 0>>

\* Python values: an int, a str, a tuple of values.
PyInt(n) == <<"int", n>>
PyStr(s) == <<"str", s>>
PyTuple(items) == <<"tuple", items>>

\* x < y for two str: by code points, a proper prefix first.
RECURSIVE str_lt(_, _)
str_lt(x, y) ==
    IF y = <<>> THEN FALSE
    ELSE IF x = <<>> THEN TRUE
    ELSE IF x[1] # y[1] THEN ord(x[1]) < ord(y[1])
    ELSE str_lt(Tail(x), Tail(y))

\* x < y of Python: "lt" when it holds, "ge" when it does not, "TypeError"
\* when an int meets a str. Two tuples are compared at the first place
\* where their items are not equal.
RECURSIVE py_lt(_, _)
py_lt(x, y) ==
    IF x[1] = "int" /\ y[1] = "int" THEN (IF x[2] < y[2] THEN "lt" ELSE "ge")
    ELSE IF x[1] = "str" /\ y[1] = "str" THEN (IF str_lt(x[2], y[2]) THEN "lt" ELSE "ge")
    ELSE IF x[1] = "tuple" /\ y[1] = "tuple"
      THEN LET differ == {i \in 1..Len(x[2]) : i <= Len(y[2]) /\ x[2][i] # y[2][i]}
           IN  IF differ = {} THEN (IF Len(x[2]) < Len(y[2]) THEN "lt" ELSE "ge")
               ELSE LET i == CHOOSE d \in differ : \A e \in differ : d <= e
                    IN  py_lt(x[2][i], y[2][i])
    ELSE "TypeError"

\* Variant of sort_key: the parts are not marked as number or string.
sort_key_unmarked(release_version) ==
    LET v == replace(replace(release_version, "+", "."), "-", ".")
        parts == split(v, ".")
    IN  PyTuple([i \in 1..Len(parts) |->
                    IF int(parts[i])[1] THEN PyInt(int(parts[i])[2])
                    ELSE PyStr(parts[i])])

\* Variant of sort_key: every part is kept as a string.
sort_key_strings(release_version) ==
    LET v == replace(replace(release_version, "+", "."), "-", ".")
        parts == split(v, ".")
    IN  PyTuple([i \in 1..Len(parts) |-> PyTuple(<<PyInt(1), PyStr(parts[i])>>)])

\* interaction.py:97-107
sort_key(release_version) ==
    LET v == replace(replace(release_version, "+", "."), "-", ".")
        parts == split(v, ".")
    IN  PyTuple([i \in 1..Len(parts) |->
                    IF int(parts[i])[1]
                      THEN PyTuple(<<PyInt(0), PyInt(int(parts[i])[2])>>)
                    ELSE PyTuple(<<PyInt(1), PyStr(parts[i])>>)])

\* packaging.version.Version for the versions of the model: a release
\* segment of numbers, then nothing, a release candidate "rc1" or "-rc1",
\* or a local label "+b"; <<FALSE, ..>> stands for InvalidVersion. The key
\* drops the trailing zeros of the release segment; a release candidate
\* sorts before the final version and a local label after it.
RECURSIVE strip_zeros(_)
strip_zeros(numbers) ==
    IF numbers # <<>> /\ numbers[Len(numbers)] = PyInt(0)
      THEN strip_zeros(SubSeq(numbers, 1, Len(numbers) - 1))
    ELSE numbers
Version(release_version) ==
    LET ends == {i \in 1..Len(release_version) :
                    ~isdigit(release_version[i]) /\ release_version[i] # "."}
        cut == IF ends = {} THEN Len(release_version) + 1
               ELSE CHOOSE i \in ends : \A j \in ends : i <= j
        segment == split(SubSeq(release_version, 1, cut - 1), ".")
        suffix == SubSeq(release_version, cut, Len(release_version))
        stage == CASE suffix = <<>> -> 1
                   [] suffix \in {<<"r", "c", "1">>, <<"-", "r", "c", "1">>} -> 0
                   [] suffix = <<"+", "b">> -> 2
                   [] OTHER -> 3
    IN  IF stage = 3 \/ \E i \in 1..Len(segment) : ~int(segment[i])[1]
          THEN <<FALSE, PyTuple(<<>>)>>
        ELSE <<TRUE, PyTuple(<<PyTuple(strip_zeros([i \in 1..Len(segment) |->
                                          PyInt(int(segment[i])[2])])),
                               PyInt(stage)>>)>>

\* list.sort(key=..., reverse=True) on the keys of the list: stable, the
\* larger key first; <<FALSE, ..>> when a comparison raises TypeError.
RECURSIVE sort_reverse(_, _)
sort_reverse(list, keys) ==
    IF list = <<>> THEN <<TRUE, <<>>, <<>> >>
    ELSE LET n == Len(list)
             front == sort_reverse(SubSeq(list, 1, n - 1), SubSeq(keys, 1, n - 1))
             \* the places of the sorted front whose key is less than the last key
             less == {i \in 1..(n - 1) : py_lt(front[3][i], keys[n]) = "lt"}
             place == IF less = {} THEN n
                      ELSE CHOOSE i \in less : \A j \in less : i <= j
         IN  IF ~front[1] \/ \E i \in 1..(n - 1) : py_lt(front[3][i], keys[n]) = "TypeError"
               THEN <<FALSE, list, keys>>
             ELSE <<TRUE,
                    SubSeq(front[2], 1, place - 1) \o <<list[n]>>
                        \o SubSeq(front[2], place, n - 1),
                    SubSeq(front[3], 1, place - 1) \o <<keys[n]>>
                        \o SubSeq(front[3], place, n - 1)>>

\* The versions of the releases of the project.
Versions ==
    {<<"1", ".", "0">>, <<"1", ".", "0", ".", "0">>, <<"1", ".", "9">>,
     <<"1", ".", "1", "0">>, <<"1", ".", "0", "-", "r", "c", "1">>,
     <<"1", ".", "0", "+", "b">>, <<"1", ".", "x">>, <<"x">>, <<"1", ".", ".", "0">>}

\* The rows the query returns, in any order; a version names one release.
Rows ==
    {rows \in SeqsUpTo(Versions, MaxReleases) :
        \A i, j \in 1..Len(rows) : i # j => rows[i] # rows[j]}

ReleasesInit ==
    /\ NoWriter
    /\ NoTabulation
    /\ policies = <<>>
    /\ projects = <<>>
    /\ request = <<>>
    /\ response = <<>>
    /\ results \in Rows
    /\ listed = FALSE

\* interaction.py:78-110: the rows are sorted by Version; when a version
\* does not parse, by sort_key.
all_releases_sorted(rows) ==
    LET parsed == [i \in 1..Len(rows) |-> Version(rows[i])]
    IN  IF \A i \in 1..Len(rows) : parsed[i][1]
          THEN sort_reverse(rows, [i \in 1..Len(rows) |-> parsed[i][2]])
        ELSE sort_reverse(rows, [i \in 1..Len(rows) |-> sort_key(rows[i])])

all_releases ==
    /\ ~listed
    /\ listed' = TRUE
    /\ results' = IF all_releases_sorted(results)[1]
                    THEN all_releases_sorted(results)[2]
                  ELSE <<"TypeError">>
    /\ UNCHANGED <<writer, tabulate, policies, projects, request, response>>

ReleasesNext == all_releases

SpecReleases == ReleasesInit /\ [][ReleasesNext]_vars

\* ------------------------------------------- claims on all_releases
\* The components of a version: what its dots, dashes and pluses separate.
Components(release_version) ==
    split(replace(replace(release_version, "+", "."), "-", "."), ".")
Numeric(part) == part # <<>> /\ \A i \in 1..Len(part) : isdigit(part[i])
SameComponent(a, b) ==
    IF Numeric(a) /\ Numeric(b) THEN digits_value(a) = digits_value(b) ELSE a = b
\* Component a orders before component b: a number before a string, two
\* numbers by value, two strings as strings.
ComponentBefore(a, b) ==
    \/ Numeric(a) /\ ~Numeric(b)
    \/ Numeric(a) /\ Numeric(b) /\ digits_value(a) < digits_value(b)
    \/ ~Numeric(a) /\ ~Numeric(b) /\ str_lt(a, b)
\* Version v orders before version w under the component-wise key.
FallbackBefore(v, w) ==
    LET cv == Components(v)
        cw == Components(w)
    IN  \E i \in 1..(Len(cv) + 1) :
            /\ i <= Len(cw)
            /\ \A j \in 1..(i - 1) : SameComponent(cv[j], cw[j])
            /\ \/ i = Len(cv) + 1
               \/ i <= Len(cv) /\ ComponentBefore(cv[i], cw[i])
\* Version v orders before version w as PEP 440 versions.
Pep440Before(v, w) == py_lt(Version(v)[2], Version(w)[2]) = "lt"
\* The comparator of all_releases for the given rows.
Before(rows, v, w) ==
    IF \A i \in 1..Len(rows) : Version(rows[i])[1]
      THEN Pep440Before(v, w) ELSE FallbackBefore(v, w)

\* C24: all_releases returns every release exactly once, in non-increasing
\* order under its comparator: the PEP 440 order when every version
\* parses, else the component-wise order in which a numeric component
\* orders before a non-numeric one; the sort does not fail.
C24_SortedReleases ==
    [][all_releases =>
          /\ results' # <<"TypeError">>
          /\ Len(results') = Len(results)
          /\ \A i \in 1..Len(results) :
                 Cardinality({j \in 1..Len(results') : results'[j] = results[i]}) = 1
          /\ \A i \in 1..(Len(results') - 1) :
                 ~Before(results, results'[i], results'[i + 1])]_vars

\* Three releases, one of them with a version that is no PEP 440 version,
\* returned with the non-numeric component first and 1.10 before 1.9.
C24_Witness ==
    /\ listed
    /\ results = << <<"1", ".", "x">>, <<"1", ".", "1", "0">>, <<"1", ".", "9">> >>

\* ------------------------------------------- claims on the entries
\* The message the loop of votes has just read.
Read == thread_messages'[Len(thread_messages')]
\* The loop has read one more message, and the message got as far as its
\* body: its sender has an address and its subject holds no "[RESULT]".
ReadBody ==
    /\ Len(thread_messages') = Len(thread_messages) + 1
    /\ _vote_identity(Read.from_raw, email_to_uid)[1]
    /\ ~contains(Read.subject, <<"[RESULT]">>)

\* C25: a message whose body yields one casting is tabulated with that
\* vote; one whose body yields two or more castings is tabulated with the
\* vote UNKNOWN and the casting lines joined by " // " as quotation; one
\* with an empty body or without castings leaves the map as it was.
C25_Aggregation ==
    [][ReadBody =>
          LET cast == _vote_castings(Read.body)
              key == asf_uid_or_email(Read)
          IN  /\ (Read.body = <<>> \/ cast = <<>>) => tabulated_votes' = tabulated_votes
              /\ (Len(cast) = 1) =>
                     /\ key \in DOMAIN tabulated_votes'
                     /\ tabulated_votes'[key].vote = cast[1][1]
                     /\ tabulated_votes'[key].quotation = cast[1][2]
                     /\ tabulated_votes'[key].asf_eid = Read.mid
              /\ (Len(cast) >= 2) =>
                     /\ key \in DOMAIN tabulated_votes'
                     /\ tabulated_votes'[key].vote = Vote_UNKNOWN
                     /\ tabulated_votes'[key].asf_eid = Read.mid
                     /\ tabulated_votes'[key].quotation =
                          IF Len(cast) = 2
                            THEN cast[1][2] \o <<" ", "/", "/", " ">> \o cast[2][2]
                          ELSE join([i \in 1..Len(cast) |-> cast[i][2]])]_vars

\* Alice voted +1 and then wrote a mail without a vote: her entry is the
\* one of her first mail, not flagged as updated.
C25_Witness ==
    /\ Len(thread_messages) = 2
    /\ asf_uid_or_email(thread_messages[1]) = <<"alice">>
    /\ asf_uid_or_email(thread_messages[2]) = <<"alice">>
    /\ thread_messages[1].body = << <<"+", "1">> >>
    /\ thread_messages[2].body = << <<"o", "k">> >>
    /\ ~contains(thread_messages[2].subject, <<"[RESULT]">>)
    /\ tabulated_votes[<<"alice">>].asf_eid = 1
    /\ tabulated_votes[<<"alice">>].vote = YES
    /\ ~tabulated_votes[<<"alice">>].updated

\* A mail with two castings is tabulated as UNKNOWN.
C25_TwoCastings ==
    /\ <<"alice">> \in DOMAIN tabulated_votes
    /\ tabulated_votes[<<"alice">>].vote = Vote_UNKNOWN
    /\ tabulated_votes[<<"alice">>].quotation = <<"+", "1", " ", "/", "/", " ", "-", "1">>

\* C27: outside the developer environment the status of an entry is
\* BINDING when the uid of the sender is among the members of the
\* committee, else COMMITTER when it is among the committers, else
\* CONTRIBUTOR; it is UNKNOWN exactly when there is no committee or the
\* sender has no uid, and a voting mail of a sender without uid is
\* tabulated under the normalised address.
C27_StatusClassification ==
    [][/\ \A key \in DOMAIN tabulated_votes' :
              LET msg == thread_messages'[tabulated_votes'[key].asf_eid]
                  identity == _vote_identity(msg.from_raw, email_to_uid)
              IN  /\ tabulated_votes'[key].status =
                        IF votes_committee = NoCommittee \/ identity[3] = NoUid
                          THEN VoteStatus_UNKNOWN
                        ELSE IF identity[3] \in votes_committee.committee_members
                          THEN BINDING
                        ELSE IF identity[3] \in votes_committee.committers
                          THEN COMMITTER
                        ELSE CONTRIBUTOR
                  /\ key = IF identity[3] = NoUid THEN identity[2] ELSE identity[3]
       /\ (/\ ReadBody
           /\ _vote_identity(Read.from_raw, email_to_uid)[3] = NoUid
           /\ _vote_castings(Read.body) # <<>>)
          => /\ _vote_identity(Read.from_raw, email_to_uid)[2] \in DOMAIN tabulated_votes'
             /\ tabulated_votes'[_vote_identity(Read.from_raw, email_to_uid)[2]].asf_eid
                  = Read.mid]_vars

\* With a committee: Bob, who has no uid, is tabulated under his address
\* with status UNKNOWN, and Alice, a member and a committer, is BINDING.
C27_Witness ==
    /\ ~dev
    /\ votes_committee = Tooling
    /\ <<"bob", "@", "example.org">> \in DOMAIN tabulated_votes
    /\ tabulated_votes[<<"bob", "@", "example.org">>].status = VoteStatus_UNKNOWN
    /\ <<"alice">> \in DOMAIN tabulated_votes
    /\ tabulated_votes[<<"alice">>].status = BINDING

\* ------------------------------------- release_latest_vote_task as a query
\* The query of interaction.py:199-206 reads the Task table whatever wrote
\* it: the table is drawn from rows of every status, with and without a
\* result, and resolve (vote.py:205-209) is the caller that runs the query.
MaxRows == 3

\* A row of the Task table: the columns the query filters on are drawn, the
\* others are those of a task written by start.
TaskRow(r, task_type, status, with_result) ==
    [task_type |-> task_type, status |-> status, rel |-> r,
     email_to |-> DevList, vote_duration |-> 72,
     subject |-> FormSubject, body |-> FormBody, in_reply_to |-> None,
     result |-> IF with_result THEN 1 ELSE None]

\* Rows of the table: the vote tasks of the release resolved, in every
\* status, a vote task of another release and a task of another type.
TaskRows ==
    {TaskRow(r, VOTE_INITIATE, st, w) : r \in Voted, st \in TaskStatus, w \in BOOLEAN}
    \cup {TaskRow(r, VOTE_INITIATE, COMPLETED, TRUE) : r \in Releases \ Voted}
    \cup {TaskRow(r, MESSAGE_SEND, COMPLETED, TRUE) : r \in Voted}

TaskTables == UNION {[1..n -> TaskRows] : n \in 0..MaxRows}

LatestInit ==
    /\ phase = [r \in Releases |-> CANDIDATE]
    /\ podling_thread_id = [r \in Releases |-> None]
    /\ revisions = [r \in Releases |-> 1]
    /\ tasks \in TaskTables
    /\ committee = [r \in Releases |-> "pmc"]
    /\ dev \in BOOLEAN
    /\ ses = [s \in Sessions |-> Returned("none", "")]
    /\ NoTabulation
    /\ NoInteraction

LatestNext ==
    \E s \in Sessions, r \in Voted, vr \in VoteResults :
        Len(tasks) <= MaxRows /\ resolve(s, r, vr)

SpecLatest == LatestInit /\ [][LatestNext]_vars

\* The vote tasks of release r that carry a result and, outside the
\* development environment, are neither queued nor active.
WithResult(r) ==
    {i \in 1..Len(tasks) :
        /\ tasks[i].rel = r
        /\ tasks[i].task_type = VOTE_INITIATE
        /\ tasks[i].result # None
        /\ (dev \/ ~(tasks[i].status = QUEUED \/ tasks[i].status = ACTIVE))}

\* C29: the latest vote task of a release is the VOTE_INITIATE task of that
\* release with a non-null result that was added last; outside the
\* development environment queued and active tasks are left out, in it a
\* queued or active task with a result counts; with no such task the
\* command that asked for it fails with RuntimeError.
C29_LatestVoteTask ==
    [][\A s \in Sessions, r \in Voted, vr \in VoteResults :
          resolve(s, r, vr) /\ release_found(r) /\ committee[r] # "none" =>
              IF WithResult(r) = {}
                THEN ses'[s].ret = "RuntimeError"
                ELSE /\ ses'[s].pc = "resolve_release"
                     /\ ses'[s].task \in WithResult(r)
                     /\ \A j \in WithResult(r) : j <= ses'[s].task]_vars

\* In the development environment resolve has taken a queued task with a
\* result, added after a completed one, as the latest vote task.
C29_Witness ==
    \E s \in Sessions :
        /\ dev
        /\ ses[s].pc = "resolve_release"
        /\ tasks[ses[s].task].status = QUEUED
        /\ \E j \in 1..Len(tasks) :
              /\ j < ses[s].task
              /\ tasks[j].status = COMPLETED
              /\ tasks[j].result # None
              /\ tasks[j].task_type = VOTE_INITIATE
              /\ tasks[j].rel = ses[s].rel

\* Outside the development environment a queued task with a result, added
\* last, was passed over for an older completed one.
C29_PassedOver ==
    \E s \in Sessions :
        /\ ~dev
        /\ ses[s].pc = "resolve_release"
        /\ \E j \in 1..Len(tasks) :
              /\ j > ses[s].task
              /\ tasks[j].status = QUEUED
              /\ tasks[j].result # None
              /\ tasks[j].task_type = VOTE_INITIATE
              /\ tasks[j].rel = ses[s].rel


\* ------------------------------------------------- both rounds of a podling
\* The VOTE_INITIATE tasks of release r that the round-1 resolution queued:
\* those sent to the address of the Incubator PMC vote.
RoundTwoTasks(r) ==
    {i \in 1..Len(tasks) :
        /\ tasks[i].rel = r
        /\ tasks[i].task_type = VOTE_INITIATE
        /\ tasks[i].email_to = incubator_vote_address}

\* C30: a podling release reaches RELEASE_PREVIEW only after both vote
\* rounds have run: whenever resolve moves it there, the round-2
\* VOTE_INITIATE task queued by the round-1 resolution has completed with a
\* result; a second resolve('passed') while that task is queued or active
\* does not advance the release.
C30_BothRounds ==
    [][\A r \in Voted :
          is_podling(r) /\ phase[r] # PREVIEW /\ phase'[r] = PREVIEW =>
              \E i \in RoundTwoTasks(r) :
                  tasks[i].status = COMPLETED /\ tasks[i].result # None]_vars



\* ------------------------------------------------ the task of the current vote
\* The VOTE_INITIATE tasks queued for release r, whatever their status.
VoteTasksOf(r) ==
    {i \in 1..Len(tasks) :
        tasks[i].rel = r /\ tasks[i].task_type = VOTE_INITIATE}

\* C31: the vote task resolve acts on is the one of the current vote, the
\* VOTE_INITIATE task most recently queued for the release: when the release
\* is voted on again and the new task is still queued or active resolve
\* fails instead of resolving against the earlier completed task.
C31_CurrentVoteTask ==
    [][\A s \in Sessions, r \in Voted, vr \in VoteResults :
          resolve(s, r, vr) /\ ses'[s].pc = "resolve_release" =>
              ses'[s].task = Max(VoteTasksOf(r))]_vars


\* After a failed vote the release of a top-level committee was voted on
\* again, and resolve holds the completed task of the failed vote while the
\* task of the new vote is still queued.
C31_AfterFailedVote ==
    \E s \in Sessions :
        /\ ses[s].pc = "resolve_release"
        /\ ~is_podling(ses[s].rel)
        /\ \E j \in VoteTasksOf(ses[s].rel) :
              j > ses[s].task /\ tasks[j].status = QUEUED



\* ------------------------------------------------- two resolves at once
\* Two requests, each with a data session of its own (spec 5: requests run
\* concurrently over distinct sessions).
ConcurrentSessions == {1, 2}

\* The release is under vote and the mail of its vote has gone out: the state
\* start and the task worker leave behind.
ConcurrentInit ==
    /\ phase = [r \in Releases |-> IF r \in Voted THEN CANDIDATE ELSE CANDIDATE_DRAFT]
    /\ podling_thread_id = [r \in Releases |-> None]
    /\ revisions = [r \in Releases |-> 1]
    /\ \E r \in Voted, d \in Durations :
          tasks = <<[VoteInitiateTask(r, DevList, d, FormSubject, FormBody)
                       EXCEPT !.status = COMPLETED, !.result = 1]>>
    /\ committee \in {[r \in Releases |-> IF r \in Voted THEN k ELSE "pmc"] : k \in CommitteeKind}
    /\ dev \in BOOLEAN
    /\ ses = [s \in ConcurrentSessions |-> Returned("none", "")]
    /\ NoTabulation
    /\ NoInteraction

\* Each of the two requests calls resolve once; the steps of the two calls
\* interleave at the awaits between their reads and their commits.
ConcurrentNext ==
    \/ \E s \in ConcurrentSessions, r \in Voted, vr \in VoteResults :
          ses[s].ret = "none" /\ resolve(s, r, vr)
    \/ \E s \in ConcurrentSessions, a \in {"url", "none", "raise"} : resolve_release_round_one(s, a)
    \/ \E s \in ConcurrentSessions, c \in BOOLEAN : resolve_release_create_revision(s, c)
    \/ \E s \in ConcurrentSessions, f \in BOOLEAN : resolve_release_passed(s, f)
    \/ \E s \in ConcurrentSessions : resolve_release_failed(s)
    \/ \E s \in ConcurrentSessions : send_resolution(s)
    \/ \E i \in 1..Len(tasks) : WorkerTake(i)
    \/ \E i \in 1..Len(tasks), sent \in BOOLEAN : WorkerFinish(i, sent)

SpecConcurrent == ConcurrentInit /\ [][ConcurrentNext]_vars

\* The resolution mails queued for release r.
ResolutionMails(r) ==
    {i \in 1..Len(tasks) :
        tasks[i].rel = r /\ tasks[i].task_type = MESSAGE_SEND}

\* C32: of two resolve calls for one release that run concurrently at most
\* one takes effect for a voting round: the phase is changed by one call
\* only (no call changes a phase another has already moved off
\* RELEASE_CANDIDATE), podling_thread_id is written once, at most one
\* round-2 VOTE_INITIATE task is queued and, for a release with a single
\* round, at most one resolution mail.
C32_OneResolveTakesEffect ==
    [][\A r \in Voted :
          /\ phase'[r] # phase[r] => phase[r] = CANDIDATE
          /\ podling_thread_id'[r] # podling_thread_id[r] => podling_thread_id[r] = None
          /\ Cardinality(RoundTwoTasks(r))' <= 1
          /\ ~is_podling(r) => Cardinality(ResolutionMails(r))' <= 1]_vars

\* Both calls have returned without an error and two resolution mails are
\* queued for the one vote of a release of a top-level committee.
C32_BothTookEffect ==
    /\ \A s \in ConcurrentSessions : ses[s].ret = "ok"
    /\ \E r \in Voted : ~is_podling(r) /\ Cardinality(ResolutionMails(r)) = 2

\* Both calls took the podling vote for round 1 and each queued a round-2
\* vote.
C32_TwoRoundTwoVotes ==
    \E r \in Voted : is_podling(r) /\ Cardinality(RoundTwoTasks(r)) = 2



\* ------------------------------------------------------- the vote summary
\* Variant of vote_summary_entry: the abstain counters compare with the
\* value of Vote.ABSTAIN.
vote_summary_entry_abstain_value(result, vote_email) ==
    LET group == IF vote_email.status = BINDING THEN "binding"
                 ELSE IF vote_email.status \in {COMMITTER, CONTRIBUTOR} THEN "non_binding"
                 ELSE "unknown"
    IN  [result EXCEPT
           ![group].votes = @ + 1,
           ![group].votes_yes = @ + (IF vote_email.vote = "Yes" THEN 1 ELSE 0),
           ![group].votes_no = @ + (IF vote_email.vote = "No" THEN 1 ELSE 0),
           ![group].votes_abstain = @ + (IF vote_email.vote = ABSTAIN THEN 1 ELSE 0)]

\* The body of the loop of vote_summary (tabulate.py:199-213): the counters
\* of the entry's group; result["binding_votes_yes"] is
\* result.binding.votes_yes.  vote.value is compared with the literals
\* "Yes", "No" and "Abstain".
vote_summary_entry(result, vote_email) ==
    LET group == IF vote_email.status = BINDING THEN "binding"
                 ELSE IF vote_email.status \in {COMMITTER, CONTRIBUTOR} THEN "non_binding"
                 ELSE "unknown"
    IN  [result EXCEPT
           ![group].votes = @ + 1,
           ![group].votes_yes = @ + (IF vote_email.vote = "Yes" THEN 1 ELSE 0),
           ![group].votes_no = @ + (IF vote_email.vote = "No" THEN 1 ELSE 0),
           ![group].votes_abstain = @ + (IF vote_email.vote = "Abstain" THEN 1 ELSE 0)]

\* The loop of vote_summary over tabulated_votes.values().
RECURSIVE vote_summary_loop(_, _, _)
vote_summary_loop(votes_map, keys, result) ==
    IF keys = {} THEN result
    ELSE LET key == CHOOSE k \in keys : TRUE
         IN  vote_summary_loop(votes_map, keys \ {key},
                               vote_summary_entry(result, votes_map[key]))

\* tabulate.py:182-215
vote_summary(votes_map) ==
    vote_summary_loop(votes_map, DOMAIN votes_map,
        [group \in {"binding", "non_binding", "unknown"} |->
            [votes |-> 0, votes_yes |-> 0, votes_no |-> 0, votes_abstain |-> 0]])

\* vote_summary is called with the map.
Summarise ==
    /\ summary = <<>>
    /\ summary' = vote_summary(tabulated_votes)
    /\ UNCHANGED <<writer, interaction, votes_committee, thread_messages, tabulating,
                   start_unixtime, tabulated_votes, outcome, body_lines, line_no, castings>>

SummaryNext ==
    \/ \E status \in VoteStatus, vote \in Vote : Tabulated(status, vote)
    \/ Summarise

SpecSummary == OutcomeInit /\ [][SummaryNext]_vars

\* The statuses of the three groups of the summary.
GroupStatuses(group) ==
    IF group = "binding" THEN {BINDING}
    ELSE IF group = "non_binding" THEN {COMMITTER, CONTRIBUTOR}
    ELSE {VoteStatus_UNKNOWN}

\* The entries of a group, and those of them with a given vote.
GroupEntries(group) ==
    {k \in DOMAIN tabulated_votes : tabulated_votes[k].status \in GroupStatuses(group)}
GroupVotes(group, vote) ==
    {k \in GroupEntries(group) : tabulated_votes[k].vote = vote}

\* C33: vote_summary partitions the entries: the three totals add up to the
\* number of entries, and in each group the yes, no and abstain counters
\* are the numbers of the group's entries whose vote is YES, NO and
\* ABSTAIN.
C33_SummaryPartition ==
    (summary # <<>>) =>
        /\ summary.binding.votes + summary.non_binding.votes + summary.unknown.votes
             = Cardinality(DOMAIN tabulated_votes)
        /\ \A group \in {"binding", "non_binding", "unknown"} :
              /\ summary[group].votes = Cardinality(GroupEntries(group))
              /\ summary[group].votes_yes = Cardinality(GroupVotes(group, YES))
              /\ summary[group].votes_no = Cardinality(GroupVotes(group, NO))
              /\ summary[group].votes_abstain = Cardinality(GroupVotes(group, ABSTAIN))

\* The same without the abstain counters.
C33_TotalsYesNo ==
    (summary # <<>>) =>
        /\ summary.binding.votes + summary.non_binding.votes + summary.unknown.votes
             = Cardinality(DOMAIN tabulated_votes)
        /\ \A group \in {"binding", "non_binding", "unknown"} :
              /\ summary[group].votes = Cardinality(GroupEntries(group))
              /\ summary[group].votes_yes = Cardinality(GroupVotes(group, YES))
              /\ summary[group].votes_no = Cardinality(GroupVotes(group, NO))

\* A summary of a map with a binding abstention.
C33_BindingAbstention ==
    /\ summary # <<>>
    /\ GroupVotes("binding", ABSTAIN) # {}
    /\ summary.binding.votes_abstain = 0



\* ------------------------------------------------ frame of the orchestrator
\* The step leaves every task of the table as it is, adds only QUEUED tasks
\* and leaves the phase and podling_thread_id of every release but r alone.
FrameOf(r) ==
    /\ Len(tasks') >= Len(tasks)
    /\ \A i \in 1..Len(tasks) : tasks'[i] = tasks[i]
    /\ \A i \in (Len(tasks) + 1)..Len(tasks') : tasks'[i].status = QUEUED
    /\ \A x \in Releases \ {r} :
          phase'[x] = phase[x] /\ podling_thread_id'[x] = podling_thread_id[x]

\* C34: start, resolve and send_resolution only ever add new tasks, each
\* with status QUEUED; they never change the status, result or arguments of
\* an existing task, never remove a task, and never modify the phase or
\* podling_thread_id of a release other than the one they were called for.
C34_Frame ==
    [][\A s \in Sessions :
          /\ \A r \in Voted :
                (\/ \E e \in Recipients, d \in Durations : start(s, r, e, d, TRUE)
                 \/ \E vr \in VoteResults : resolve(s, r, vr)) => FrameOf(r)
          /\ (\/ \E a \in {"url", "none", "raise"} : resolve_release_round_one(s, a)
              \/ \E c \in BOOLEAN : resolve_release_create_revision(s, c)
              \/ \E f \in BOOLEAN : resolve_release_passed(s, f)
              \/ resolve_release_failed(s)
              \/ send_resolution(s)) => FrameOf(ses[s].rel)]_vars

\* resolve has moved the release to RELEASE_PREVIEW and queued its
\* resolution mail behind the completed vote task, which still has its
\* status and result; the other release is where it was.
C34_Witness ==
    \E r \in Voted, i \in 1..Len(tasks), j \in 1..Len(tasks) :
        /\ phase[r] = PREVIEW
        /\ i < j
        /\ tasks[i].task_type = VOTE_INITIATE /\ tasks[i].status = COMPLETED
        /\ tasks[i].result = i
        /\ tasks[j].task_type = MESSAGE_SEND /\ tasks[j].status = QUEUED
        /\ \A x \in Releases \ {r} :
              phase[x] = CANDIDATE_DRAFT /\ podling_thread_id[x] = None


====
